---- MODULE Spec2Model ----
(***************************************************************************)
(* Verification model of smithay-egui.                                     *)
(*                                                                         *)
(*   Spec      EguiState (src/src/lib.rs) used by two input threads and a  *)
(*             render thread.                                              *)
(*   SeqSpec   the same operations called by one input thread and the      *)
(*             render thread (calls of the input API follow one another).  *)
(*   OutSpec   renders, and two threads fetching the platform output.      *)
(*   DmgSpec   the damage merge fold of GlState::paint_meshes              *)
(*             (src/src/rendering/mod.rs).                                 *)
(*   PaintSpec one call of GlState::paint_meshes: set-up, damage merge,    *)
(*             loop over the primitives, return.                           *)
(*   TexSpec   GlState::upload_textures and free_textures on a GL context. *)
(*   BufSpec   renders of two instances with one renderer, with changing   *)
(*             areas and scales and with failing calls.                    *)
(*   GpuSpec   texture uploads, evictions and paint_meshes calls on one    *)
(*             GlState, one after the other.                               *)
(*   PtrSpec   pointer motion and pointer buttons from two threads.        *)
(*   StampSpec pointer motion, stored modifiers and pointer buttons from   *)
(*             two threads, and renders.                                   *)
(*   KeySpec   key-down and key-up calls from two threads, and renders.    *)
(*   UiSpec    renders whose ui callback calls back into the EguiState.    *)
(*   LeaveSpec KeyboardTarget::leave next to key calls of another thread.  *)
(*   ModSpec   KeyboardTarget::modifiers and ::key from two threads.        *)
(*   DevSpec   input devices added and removed.                            *)
(*   RegionSpec SpaceElement::is_in_input_region around a moving pointer.  *)
(*   AxisSpec  pointer axis events handled as the example does, and calls  *)
(*             of handle_pointer_axis.                                     *)
(*   FnSpec    GlState::new and the conversion functions of                *)
(*             src/src/input.rs, called on every input.                    *)
(*                                                                         *)
(* Variables whose comment says "ghost" record what the program did; the   *)
(* program does not read them.                                             *)
(***************************************************************************)
EXTENDS Integers, Sequences, FiniteSets, TLC

VARIABLES
    \* struct EguiInner
    pointers, last_pointer_position, area, last_modifiers, last_output,
    pressed, focused, events, kbd,
    \* Mutex<EguiInner>: who holds the guard across steps, and poisoning
    lock, poisoned,
    \* input threads: position inside enter / leave, and their local `keys`
    pc, keys,
    \* render thread: position inside render, its `area` argument, the
    \* RawInput given to Context::run, the returned Result, the GlState in
    \* the renderer's user data, the number of Context::run calls
    rpc, rarea, raw_input, rres, gl_state, frames,
    \* ghost: what is recorded ("ids", "keys"), the value returned by the
    \* latest last_output call
    observe, ret,
    \* ghost "ids": ids of the queued events, the next id, ids of the batch
    \* of the render in progress, ids handed over by completed renders
    evIds, nextId, batchIds, handed,
    \* ghost "keys": the latest completed input call, last Key event per
    \* logical key, key_input calls made on the composition engine by the
    \* latest keyboard call, key-down calls since the last leave
    call, lastKey, kbd_feed, downs,
    \* damage merge fold of paint_meshes
    overlap_touch, damage, new_damage, dpc,
    \* renderer user data of lib.rs: the render buffer of every instance;
    \* the `needs_recreate` local and the `int_scale` of render; the area
    \* stored by the other instance; ghost: the error value render returned,
    \* the call that failed, the buffers and the stored area when the
    \* latest render was called
    render_buffers, needs_recreate, rscale, other_area, rerr, rfail, rbefore,
    \* paint_meshes: its `location` argument, the primitives, the position of
    \* the loop over them, how the call ended; ghost: the GL calls issued by
    \* the loop
    location, clipped_meshes, ppc, pres, gl_calls,
    \* GlState of rendering/mod.rs and the GL context: the texture cache, the
    \* texture objects of the context, the bindings and capabilities of the
    \* context; ghost: what the latest texture operation did, the number of
    \* texture operations
    egui_textures, gl_textures, gl, tex_step, uploads,
    \* ghost: the latest call of a function that reads no state
    conv,
    \* ghost "buttons": the button of the latest pointer button call
    btn,
    \* ghost: the latest frame given to PointerTarget::axis
    axis_call,
    \* ghost: the position given to the latest handle_pointer_motion call,
    \* the modifier state a caller passed in latest (KeyboardTarget::modifiers
    \* and handle_keyboard take one, KeyboardTarget::key takes none) and
    \* (ghost "held") the keycodes whose latest handle_keyboard call was a
    \* key-down
    stamp

innerVars == <<pointers, last_pointer_position, area, last_modifiers,
               last_output, pressed, focused, events, kbd>>
lockVars == <<lock, poisoned>>
threadVars == <<pc, keys>>
renderVars == <<rpc, rarea, raw_input, rres, gl_state, frames>>
ghostVars == <<observe, ret, evIds, nextId, batchIds, handed, call, lastKey,
               kbd_feed, downs>>
dmgVars == <<overlap_touch, damage, new_damage, dpc>>
bufVars == <<render_buffers, needs_recreate, rscale, other_area, rerr, rfail,
            rbefore>>
paintVars == <<location, clipped_meshes, ppc, pres, gl_calls>>
texVars == <<egui_textures, gl_textures, gl, tex_step, uploads>>
convVars == <<conv>>
ptrVars == <<btn, axis_call, stamp>>
extVars == <<bufVars, paintVars, texVars, convVars, ptrVars>>
vars == <<innerVars, lockVars, threadVars, renderVars, ghostVars, dmgVars,
          extVars>>

----------------------------------------------------------------------------
(* Bounds *)

MaxEvents == 3      \* numbered events appended to EguiInner.events in one run
MaxQueue == 2       \* events waiting in EguiInner.events
MaxPressed == 2     \* entries of EguiInner.pressed
MaxPointers == 1    \* pointer devices added
MaxFrames == 2      \* Context::run calls
MaxDamage == 3      \* rectangles in a damage list
MaxMeshes == 2      \* primitives given to paint_meshes
MaxPaintDamage == 2 \* damage rectangles given to paint_meshes with primitives
MaxUploads == 3     \* texture deltas and eviction notices processed
MaxKeysyms == 2     \* keysyms of one key given to convert_key

Threads == {1, 2}
SeqThreads == {1}

\* EguiState instances that share a renderer, by EguiState::id: the one
\* whose EguiInner the model holds, and another one. render_buffers maps an
\* instance to <<>> (no entry) or to <<buffer>>
Instances == {"self", "other"}

None == "None"

----------------------------------------------------------------------------
(* Input values *)

\* ModifiersState values delivered by the compositor
ModDefault == [ctrl |-> FALSE, alt |-> FALSE, shift |-> FALSE, logo |-> FALSE]
ModCtrl == [ctrl |-> TRUE, alt |-> FALSE, shift |-> FALSE, logo |-> FALSE]
ModLogoShift == [ctrl |-> FALSE, alt |-> FALSE, shift |-> TRUE, logo |-> TRUE]
ModStates == {ModDefault, ModCtrl}

\* keycodes of the keymap: 9 -> Escape, 38 -> a, 67 -> F1
Keycodes == {9, 38, 67}
\* keycodes passed to handle_keyboard
TypedKeycodes == {38, 67}
raw_syms(code) ==
    CASE code = 9 -> <<"Escape">>
      [] code = 38 -> <<"a">>
      [] code = 67 -> <<"F1">>
      [] OTHER -> <<>>

\* lists of held keys passed to KeyboardTarget::enter
HeldKeys == {<<>>, <<38>>, <<67, 38>>, <<9, 38>>}

Point(x, y) == [x |-> x, y |-> y]
Points == {Point(5, 7), Point(3, 16777217)}

Rect(x, y, w, h) == [loc |-> Point(x, y), size |-> [w |-> w, h |-> h]]
Areas == {Rect(0, 0, 8, 6), Rect(0, 0, 4, 4)}

MouseButtons == {"Left", "Forward"}
AxisAmounts == {<<0, 3>>}

----------------------------------------------------------------------------
(* src/src/input.rs *)

\* TryFrom<KeysymConv> for Key
TryFromKeysym(sym) ==
    CASE sym = "Down" -> "ArrowDown"
      [] sym = "Left" -> "ArrowLeft"
      [] sym = "Right" -> "ArrowRight"
      [] sym = "Up" -> "ArrowUp"
      [] sym = "Escape" -> "Escape"
      [] sym = "Tab" -> "Tab"
      [] sym = "BackSpace" -> "Backspace"
      [] sym = "Return" -> "Enter"
      [] sym = "space" -> "Space"
      [] sym = "Insert" -> "Insert"
      [] sym = "Delete" -> "Delete"
      [] sym = "Home" -> "Home"
      [] sym = "End" -> "End"
      [] sym = "Page_Up" -> "PageUp"
      [] sym = "Page_Down" -> "PageDown"
      [] sym = "0" -> "Num0"
      [] sym = "1" -> "Num1"
      [] sym = "2" -> "Num2"
      [] sym = "3" -> "Num3"
      [] sym = "4" -> "Num4"
      [] sym = "5" -> "Num5"
      [] sym = "6" -> "Num6"
      [] sym = "7" -> "Num7"
      [] sym = "8" -> "Num8"
      [] sym = "9" -> "Num9"
      [] sym = "a" -> "A"
      [] sym = "b" -> "B"
      [] sym = "c" -> "C"
      [] sym = "d" -> "D"
      [] sym = "e" -> "E"
      [] sym = "f" -> "F"
      [] sym = "g" -> "G"
      [] sym = "h" -> "H"
      [] sym = "i" -> "I"
      [] sym = "j" -> "J"
      [] sym = "k" -> "K"
      [] sym = "l" -> "L"
      [] sym = "m" -> "M"
      [] sym = "n" -> "N"
      [] sym = "o" -> "O"
      [] sym = "p" -> "P"
      [] sym = "q" -> "Q"
      [] sym = "r" -> "R"
      [] sym = "s" -> "S"
      [] sym = "t" -> "T"
      [] sym = "u" -> "U"
      [] sym = "v" -> "V"
      [] sym = "w" -> "W"
      [] sym = "x" -> "X"
      [] sym = "y" -> "Y"
      [] sym = "z" -> "Z"
      [] OTHER -> None

\* a search that returns the last keysym of the sequence that has a mapping
RECURSIVE convert_key_last(_)
convert_key_last(syms) ==
    IF syms = <<>> THEN None
    ELSE IF convert_key_last(Tail(syms)) # None THEN convert_key_last(Tail(syms))
    ELSE TryFromKeysym(Head(syms))

\* convert_key: the first keysym of the sequence that has a mapping
RECURSIVE convert_key(_)
convert_key(syms) ==
    IF syms = <<>> THEN None
    ELSE IF TryFromKeysym(Head(syms)) # None THEN TryFromKeysym(Head(syms))
    ELSE convert_key(Tail(syms))

\* cfg!(target_os = "macos") of the build
target_os_macos == FALSE

\* a conversion that takes `command` from the logo key on every platform
convert_modifiers_logo(macos, modifiers) ==
    [ctrl |-> modifiers.ctrl,
     alt |-> modifiers.alt,
     shift |-> modifiers.shift,
     mac_cmd |-> IF macos THEN modifiers.logo ELSE FALSE,
     command |-> modifiers.logo]

\* From<ModifiersWrapper> for Modifiers, in a build for macOS (`macos`) or
\* for another platform
convert_modifiers_on(macos, modifiers) ==
    [ctrl |-> modifiers.ctrl,
     alt |-> modifiers.alt,
     shift |-> modifiers.shift,
     mac_cmd |-> IF macos THEN modifiers.logo ELSE FALSE,
     command |-> IF macos THEN modifiers.logo ELSE modifiers.ctrl]

\* convert_modifiers in the build the other definitions model
convert_modifiers(modifiers) == convert_modifiers_on(target_os_macos, modifiers)

\* a conversion that also maps the side buttons
convert_button_extra(button) ==
    CASE button = "Left" -> "Primary"
      [] button = "Middle" -> "Middle"
      [] button = "Right" -> "Secondary"
      [] button = "Forward" -> "Extra1"
      [] button = "Back" -> "Extra2"
      [] OTHER -> None

\* convert_button / TryFrom<ButtonWrapper> for PointerButton
convert_button(button) ==
    CASE button = "Left" -> "Primary"
      [] button = "Middle" -> "Middle"
      [] button = "Right" -> "Secondary"
      [] OTHER -> None

\* KbdInternal::get_utf8: the text xkb composes for a keycode
get_utf8(code) ==
    CASE code = 38 -> "a"
      [] OTHER -> ""

----------------------------------------------------------------------------
(* Numeric conversions *)

Abs(i) == IF i < 0 THEN -i ELSE i

RECURSIVE Pow2(_)
Pow2(n) == IF n = 0 THEN 1 ELSE 2 * Pow2(n - 1)

\* unit in the last place of the f32 nearest to the integer i
RECURSIVE Ulp32(_, _)
Ulp32(i, u) == IF Abs(i) < u * Pow2(24) THEN u ELSE Ulp32(i, 2 * u)

\* `i as f32` for an i32 (round to nearest, ties to even)
as_f32(i) ==
    LET u == Ulp32(i, 1)
        a == Abs(i)
        lo == (a \div u) * u
        r == a - lo
        up == IF 2 * r > u THEN TRUE
              ELSE IF 2 * r < u THEN FALSE
              ELSE ((lo \div u) % 2) = 1
        m == IF up THEN lo + u ELSE lo
    IN IF i < 0 THEN -m ELSE m

Pos2(x, y) == [x |-> as_f32(x), y |-> as_f32(y)]

----------------------------------------------------------------------------
(* egui::Event values *)

KeyEvent(key, isPressed, modifiers) ==
    [pressed |-> isPressed, modifiers |-> convert_modifiers(modifiers),
     key |-> key, type |-> "Key", repeat |-> FALSE]
TextEvent(text) == [type |-> "Text", text |-> text]
PointerMoved(p) == [type |-> "PointerMoved", pos |-> Pos2(p.x, p.y)]
PointerButton(p, button, isPressed, modifiers) ==
    [pressed |-> isPressed, modifiers |-> convert_modifiers(modifiers),
     button |-> button, type |-> "PointerButton", pos |-> Pos2(p.x, p.y)]
Scroll(x, y) == [x |-> as_f32(x), y |-> as_f32(y), type |-> "Scroll"]
PointerGone == [type |-> "PointerGone"]

----------------------------------------------------------------------------
(* Bookkeeping shared by the handlers *)

Range(q) == {q[i] : i \in 1..Len(q)}

\* the logical keys the keymap can produce
LogicalKeys == {convert_key(raw_syms(c)) : c \in Keycodes} \ {None}

\* ghost: the last Key event of every logical key after the events `new`
RECURSIVE NoteKeys(_, _)
NoteKeys(lk, new) ==
    IF new = <<>> THEN lk
    ELSE LET e == Head(new)
             lk1 == IF e.type = "Key"
                    THEN [lk EXCEPT ![e.key] = IF e.pressed THEN "down" ELSE "up"]
                    ELSE lk
         IN NoteKeys(lk1, Tail(new))

\* ghost "keys": record `new` in place of `old`
Note(new, old) == IF "keys" \in observe THEN new ELSE old

\* inner.events.push(..) for each event of `new`, in order
Push(new) ==
    /\ Len(events) + Len(new) <= MaxQueue
    /\ events' = events \o new
    /\ IF "ids" \in observe
       THEN /\ nextId + Len(new) <= MaxEvents + 1
            /\ evIds' = evIds \o [i \in 1..Len(new) |-> nextId + i - 1]
            /\ nextId' = nextId + Len(new)
       ELSE UNCHANGED <<evIds, nextId>>
    /\ lastKey' = Note(NoteKeys(lastKey, new), lastKey)

\* self.inner.lock().unwrap() of a call that holds the guard for one step
Acquire == lock = "free" /\ ~poisoned

Idle(t) == pc[t] = "idle"

\* ghost "keys": the input call `op` has returned. For the device calls
\* `pressed` is the device's pointer capability. For leave, `code` is the
\* number of key-down calls that were outstanding and `pressed` tells that
\* nothing but key-down calls came since the previous leave
Called(op, code, isPressed) ==
    call' = Note([pressed |-> isPressed, code |-> code, op |-> op,
                  flip |-> ~call.flip], call)

\* ghost: the key-down calls since the last leave (n of them, `mapped` with
\* a logical key), as long as no key-up or enter call came in between
NoDowns == [n |-> 0, mapped |-> 0, clean |-> TRUE]
OtherCalls == [n |-> 0, mapped |-> 0, clean |-> FALSE]

----------------------------------------------------------------------------
(* src/src/lib.rs: EguiState *)

\* EguiState::new and the start of the threads
InitEgui ==
    /\ pointers = 0
    /\ last_pointer_position = Point(0, 0)
    /\ area = Rect(0, 0, 8, 6)
    /\ last_modifiers = ModDefault
    /\ last_output = 0
    /\ pressed = <<>>
    /\ focused = FALSE
    /\ events = <<>>
    /\ kbd \in {None, "KbdInternal"}
    /\ lock = "free"
    /\ poisoned = FALSE
    /\ pc = [t \in Threads |-> "idle"]
    /\ keys = [t \in Threads |-> <<>>]
    /\ rpc = "idle"
    /\ rarea = area
    /\ raw_input = <<>>
    /\ rres = None
    /\ gl_state = FALSE
    /\ frames = 0
    /\ ret = 0
    /\ evIds = <<>>
    /\ nextId = 1
    /\ batchIds = <<>>
    /\ handed = {}
    /\ call = [pressed |-> FALSE, code |-> 0, op |-> "new", flip |-> FALSE]
    /\ lastKey = [k \in LogicalKeys |-> "none"]
    /\ kbd_feed = <<>>
    /\ downs = NoDowns
    /\ render_buffers = [i \in Instances |-> <<>>]
    /\ needs_recreate = FALSE
    /\ rscale = 1
    /\ other_area = area
    /\ rerr = None
    /\ rfail = None
    /\ rbefore = [area |-> area, buffers |-> render_buffers]
    /\ btn = [pressed |-> FALSE, button |-> None, flip |-> FALSE]
    /\ axis_call = [flip |-> FALSE, frame |-> <<>>]
    /\ stamp = [pos |-> Point(0, 0), mods |-> ModDefault, held |-> {}]

\* `pointers` is a usize: -1 stands for usize::MAX, where + 1 overflows (a
\* build with overflow checks panics there while holding the guard)
handle_device_added(t, pointerCap) ==
    /\ Idle(t) /\ Acquire
    /\ pointers < MaxPointers
    /\ \/ /\ pointerCap /\ pointers = -1
          /\ poisoned' = TRUE
          /\ UNCHANGED call
          /\ UNCHANGED pointers
       \/ /\ pointers' = IF pointerCap THEN pointers + 1 ELSE pointers
          /\ Called("handle_device_added", 0, pointerCap)
          /\ UNCHANGED poisoned
    /\ UNCHANGED <<last_pointer_position, area, last_modifiers, last_output,
                   pressed, focused, events, kbd, lock, pc, keys, rpc, rarea,
                   raw_input, rres, gl_state, frames, observe, ret, evIds,
                   nextId, batchIds, handed, lastKey, kbd_feed, downs,
                   overlap_touch, damage, new_damage, dpc, extVars>>

\* `pointers` is a usize: -1 stands for usize::MAX, the value 0 - 1 wraps
\* to; a build with overflow checks panics there while holding the guard
handle_device_removed(t, pointerCap) ==
    /\ Idle(t) /\ Acquire
    /\ pointerCap => pointers >= 0 - MaxPointers
    /\ \/ /\ pointerCap /\ pointers = 0
          /\ poisoned' = TRUE
          /\ UNCHANGED call
          /\ UNCHANGED <<pointers, events, evIds, nextId, lastKey>>
       \/ /\ pointers' = IF pointerCap THEN pointers - 1 ELSE pointers
          /\ IF pointers' = 0
             THEN Push(<<PointerGone>>)
             ELSE UNCHANGED <<events, evIds, nextId, lastKey>>
          /\ Called("handle_device_removed", 0, pointerCap)
          /\ UNCHANGED poisoned
    /\ UNCHANGED <<last_pointer_position, area, last_modifiers, last_output,
                   pressed, focused, kbd, lock, pc, keys, rpc, rarea,
                   raw_input, rres, gl_state, frames, observe, ret, batchIds,
                   handed, kbd_feed, downs, overlap_touch, damage, new_damage,
                   dpc, extVars>>

\* the composition engine fed only with the keys that have a logical mapping
handle_keyboard_feeds_mapped(code, isPressed) ==
    IF kbd # None /\ convert_key(raw_syms(code)) # None
    THEN << <<code, isPressed>> >> ELSE <<>>

\* the kbd.key_input calls of handle_keyboard
handle_keyboard_feeds(code, isPressed) ==
    IF kbd # None THEN << <<code, isPressed>> >> ELSE <<>>

\* a Text event on every call, also for a key-up
text_events_always(code, isPressed) ==
    IF kbd # None THEN <<TextEvent(get_utf8(code))>> ELSE <<>>

\* the Text event of handle_keyboard: the composed text, on a key-down
text_events(code, isPressed) ==
    IF kbd # None /\ isPressed THEN <<TextEvent(get_utf8(code))>> ELSE <<>>

\* handle_keyboard recording only the keys that have a logical mapping
handle_keyboard_mapped(t, code, isPressed, modifiers) ==
    LET key == convert_key(raw_syms(code))
        keyEv == IF key # None
                 THEN <<KeyEvent(key, isPressed, modifiers)>> ELSE <<>>
        textEv == text_events(code, isPressed)
    IN /\ Idle(t) /\ Acquire
       /\ isPressed => Len(pressed) < MaxPressed
       /\ last_modifiers' = modifiers
       /\ Push(keyEv \o textEv)
       /\ pressed' = IF isPressed
                     THEN IF key # None
                          THEN Append(pressed, <<key, code>>) ELSE pressed
                     ELSE SelectSeq(pressed, LAMBDA e : e[2] # code)
       /\ kbd_feed' = Note(handle_keyboard_feeds(code, isPressed), kbd_feed)
       /\ downs' = Note(IF ~isPressed THEN OtherCalls
                        ELSE IF ~downs.clean THEN downs
                        ELSE [downs EXCEPT
                                !.n = @ + 1,
                                !.mapped = @ + (IF key # None THEN 1 ELSE 0)],
                        downs)
       /\ Called("handle_keyboard", code, isPressed)
       /\ stamp' = [stamp EXCEPT
                      !.mods = modifiers,
                      !.held = IF "held" \notin observe THEN @
                               ELSE IF isPressed THEN @ \cup {code}
                               ELSE @ \ {code}]
       /\ UNCHANGED <<pointers, last_pointer_position, area, last_output,
                      focused, kbd, lock, poisoned, pc, keys, rpc, rarea,
                      raw_input, rres, gl_state, frames, observe, ret,
                      batchIds, handed, overlap_touch, damage, new_damage,
                      dpc, bufVars, paintVars, texVars, convVars, btn,
                      axis_call>>

handle_keyboard(t, code, isPressed, modifiers) ==
    LET key == convert_key(raw_syms(code))
        keyEv == IF key # None
                 THEN <<KeyEvent(key, isPressed, modifiers)>> ELSE <<>>
        textEv == text_events(code, isPressed)
    IN /\ Idle(t) /\ Acquire
       /\ isPressed => Len(pressed) < MaxPressed
       /\ last_modifiers' = modifiers
       /\ Push(keyEv \o textEv)
       /\ pressed' = IF isPressed
                     THEN Append(pressed, <<key, code>>)
                     ELSE SelectSeq(pressed, LAMBDA e : e[2] # code)
       /\ kbd_feed' = Note(handle_keyboard_feeds(code, isPressed), kbd_feed)
       /\ downs' = Note(IF ~isPressed THEN OtherCalls
                        ELSE IF ~downs.clean THEN downs
                        ELSE [downs EXCEPT
                                !.n = @ + 1,
                                !.mapped = @ + (IF key # None THEN 1 ELSE 0)],
                        downs)
       /\ Called("handle_keyboard", code, isPressed)
       /\ stamp' = [stamp EXCEPT
                      !.mods = modifiers,
                      !.held = IF "held" \notin observe THEN @
                               ELSE IF isPressed THEN @ \cup {code}
                               ELSE @ \ {code}]
       /\ UNCHANGED <<pointers, last_pointer_position, area, last_output,
                      focused, kbd, lock, poisoned, pc, keys, rpc, rarea,
                      raw_input, rres, gl_state, frames, observe, ret,
                      batchIds, handed, overlap_touch, damage, new_damage,
                      dpc, bufVars, paintVars, texVars, convVars, btn,
                      axis_call>>

\* KeyboardTarget::key up to the end of its first statement: the stored
\* modifiers are copied under a guard that is dropped at the semicolon; the
\* thread keeps (code, pressed, modifiers) for the call that follows
KeyboardTarget_key_read(t, code, isPressed) ==
    /\ Idle(t) /\ Acquire
    /\ pc' = [pc EXCEPT ![t] = "key"]
    /\ keys' = [keys EXCEPT ![t] = <<code, isPressed, last_modifiers>>]
    /\ UNCHANGED <<innerVars, lockVars, renderVars, ghostVars, dmgVars,
                   extVars>>

\* KeyboardTarget::key from self.handle_keyboard(..) to its return:
\* handle_keyboard with the modifiers copied before
KeyboardTarget_key_handle(t) ==
    LET code == keys[t][1]
        isPressed == keys[t][2]
        modifiers == keys[t][3]
        key == convert_key(raw_syms(code))
        keyEv == IF key # None
                 THEN <<KeyEvent(key, isPressed, modifiers)>> ELSE <<>>
        textEv == text_events(code, isPressed)
    IN /\ pc[t] = "key" /\ Acquire
       /\ isPressed => Len(pressed) < MaxPressed
       /\ last_modifiers' = modifiers
       /\ Push(keyEv \o textEv)
       /\ pressed' = IF isPressed
                     THEN Append(pressed, <<key, code>>)
                     ELSE SelectSeq(pressed, LAMBDA e : e[2] # code)
       /\ kbd_feed' = Note(handle_keyboard_feeds(code, isPressed), kbd_feed)
       /\ downs' = Note(IF ~isPressed THEN OtherCalls
                        ELSE IF ~downs.clean THEN downs
                        ELSE [downs EXCEPT
                                !.n = @ + 1,
                                !.mapped = @ + (IF key # None THEN 1 ELSE 0)],
                        downs)
       /\ Called("key", code, isPressed)
       /\ pc' = [pc EXCEPT ![t] = "idle"]
       /\ keys' = [keys EXCEPT ![t] = <<>>]
       /\ stamp' = [stamp EXCEPT
                      !.held = IF "held" \notin observe THEN @
                               ELSE IF isPressed THEN @ \cup {code}
                               ELSE @ \ {code}]
       /\ UNCHANGED <<pointers, last_pointer_position, area, last_output,
                      focused, kbd, lock, poisoned, rpc, rarea,
                      raw_input, rres, gl_state, frames, observe, ret,
                      batchIds, handed, overlap_touch, damage, new_damage,
                      dpc, bufVars, paintVars, texVars, convVars, btn,
                      axis_call>>

handle_pointer_motion(t, position) ==
    /\ Idle(t) /\ Acquire
    /\ last_pointer_position' = position
    /\ Push(<<PointerMoved(position)>>)
    /\ Called("handle_pointer_motion", 0, FALSE)
    /\ stamp' = [stamp EXCEPT !.pos = position]
    /\ UNCHANGED <<pointers, area, last_modifiers, last_output, pressed,
                   focused, kbd, lock, poisoned, pc, keys, rpc, rarea,
                   raw_input, rres, gl_state, frames, observe, ret, batchIds,
                   handed, kbd_feed, downs, overlap_touch, damage, new_damage,
                   dpc, bufVars, paintVars, texVars, convVars, btn,
                   axis_call>>

\* ghost "buttons": a pointer button call for `button` has returned
Pressed(button, isPressed) ==
    btn' = IF "buttons" \in observe
           THEN [pressed |-> isPressed, button |-> button, flip |-> ~btn.flip]
           ELSE btn

\* a button without a mapping returns before the lock is taken
\* handle_pointer_button stamping the state of a fresh EguiInner instead of
\* the stored one
handle_pointer_button_fresh(t, button, isPressed) ==
    /\ Idle(t)
    /\ IF convert_button(button) # None
       THEN /\ Acquire
            /\ Push(<<PointerButton(Point(0, 0), convert_button(button),
                                    isPressed, ModDefault)>>)
       ELSE UNCHANGED <<events, evIds, nextId, lastKey>>
    /\ Called("handle_pointer_button", 0, isPressed)
    /\ Pressed(button, isPressed)
    /\ UNCHANGED <<pointers, last_pointer_position, area, last_modifiers,
                   last_output, pressed, focused, kbd, lock, poisoned, pc,
                   keys, rpc, rarea, raw_input, rres, gl_state, frames,
                   observe, ret, batchIds, handed, kbd_feed, downs,
                   overlap_touch, damage, new_damage, dpc, bufVars, paintVars,
                   texVars, convVars, axis_call, stamp>>

handle_pointer_button(t, button, isPressed) ==
    /\ Idle(t)
    /\ IF convert_button(button) # None
       THEN /\ Acquire
            /\ Push(<<PointerButton(last_pointer_position, convert_button(button),
                                    isPressed, last_modifiers)>>)
       ELSE UNCHANGED <<events, evIds, nextId, lastKey>>
    /\ Called("handle_pointer_button", 0, isPressed)
    /\ Pressed(button, isPressed)
    /\ UNCHANGED <<pointers, last_pointer_position, area, last_modifiers,
                   last_output, pressed, focused, kbd, lock, poisoned, pc,
                   keys, rpc, rarea, raw_input, rres, gl_state, frames,
                   observe, ret, batchIds, handed, kbd_feed, downs,
                   overlap_touch, damage, new_damage, dpc, bufVars, paintVars,
                   texVars, convVars, axis_call, stamp>>

\* the match on event.button of PointerTarget::button: evdev button codes
mouse_button(code) ==
    CASE code = 272 -> "Left"
      [] code = 273 -> "Right"
      [] code = 274 -> "Middle"
      [] code = 277 -> "Forward"
      [] code = 278 -> "Back"
      [] OTHER -> None

\* PointerTarget::button: a code with a MouseButton goes to
\* handle_pointer_button, another code is dropped
PointerTarget_button(t, code, isPressed) ==
    IF mouse_button(code) # None
    THEN handle_pointer_button(t, mouse_button(code), isPressed)
    ELSE /\ Idle(t)
         /\ Called("button", 0, isPressed)
         /\ Pressed(None, isPressed)
         /\ UNCHANGED <<innerVars, lockVars, threadVars, renderVars, observe,
                        ret, evIds, nextId, batchIds, handed, lastKey,
                        kbd_feed, downs, dmgVars, bufVars, paintVars, texVars,
                        convVars, axis_call, stamp>>

handle_pointer_axis(t, x_amount, y_amount) ==
    /\ Idle(t) /\ Acquire
    /\ Push(<<Scroll(x_amount, y_amount)>>)
    /\ Called("handle_pointer_axis", 0, FALSE)
    /\ UNCHANGED <<pointers, last_pointer_position, area, last_modifiers,
                   last_output, pressed, focused, kbd, lock, poisoned, pc,
                   keys, rpc, rarea, raw_input, rres, gl_state, frames,
                   observe, ret, batchIds, handed, kbd_feed, downs,
                   overlap_touch, damage, new_damage, dpc, extVars>>

\* PointerTarget::axis: the frame is dropped (the call of
\* handle_pointer_axis is commented out)
PointerTarget_axis(t, frame) ==
    /\ Idle(t)
    /\ axis_call' = [flip |-> ~axis_call.flip, frame |-> <<frame>>]
    /\ Called("axis", 0, FALSE)
    /\ UNCHANGED <<innerVars, lockVars, threadVars, renderVars, observe, ret,
                   evIds, nextId, batchIds, handed, lastKey, kbd_feed, downs,
                   dmgVars, bufVars, paintVars, texVars, convVars, btn, stamp>>

\* the amount the example computes for one axis of a PointerAxis event:
\* event.amount(axis), or amount_discrete(axis).unwrap_or(0.0) * 3.0 when
\* there is none. An Option is <<>> or <<value>>
axis_amount(amount, discrete) ==
    IF amount # <<>> THEN amount[1]
    ELSE (IF discrete # <<>> THEN discrete[1] ELSE 0) * 3

\* the part of the AxisFrame the example builds for one axis
axis_frame_part(source, amount, discrete) ==
    LET a == axis_amount(amount, discrete)
    IN [discrete |-> IF a # 0 THEN discrete ELSE <<>>,
        value |-> IF a # 0 THEN <<a>> ELSE <<>>,
        stop |-> a = 0 /\ source = "Finger"]

\* InputEvent::PointerAxis of the example: the frame is built and given to
\* pointer.axis, which hands it to PointerTarget::axis of the EguiState
\* under the pointer
integrate_pointer_axis(t, event) ==
    PointerTarget_axis(t,
        [source |-> event.source,
         horizontal |-> axis_frame_part(event.source, event.amount[1],
                                        event.discrete[1]),
         vertical |-> axis_frame_part(event.source, event.amount[2],
                                      event.discrete[2])])

set_focused(t, f) ==
    /\ Idle(t) /\ Acquire
    /\ focused' = f
    /\ Called("set_focused", 0, FALSE)
    /\ UNCHANGED <<pointers, last_pointer_position, area, last_modifiers,
                   last_output, pressed, events, kbd, lock, poisoned, pc,
                   keys, rpc, rarea, raw_input, rres, gl_state, frames,
                   observe, ret, evIds, nextId, batchIds, handed, lastKey,
                   kbd_feed, downs, overlap_touch, damage, new_damage, dpc, extVars>>

\* KeyboardTarget::modifiers
modifiers(t, m) ==
    /\ Idle(t) /\ Acquire
    /\ last_modifiers' = m
    /\ Called("modifiers", 0, FALSE)
    /\ stamp' = [stamp EXCEPT !.mods = m]
    /\ UNCHANGED <<pointers, last_pointer_position, area, last_output,
                   pressed, focused, events, kbd, lock, poisoned, pc, keys,
                   rpc, rarea, raw_input, rres, gl_state, frames, observe,
                   ret, evIds, nextId, batchIds, handed, lastKey, kbd_feed,
                   downs, overlap_touch, damage, new_damage, dpc, bufVars,
                   paintVars, texVars, convVars, btn, axis_call>>

\* a clone of the stored output that leaves it in place
take_clone(stored) == [ret |-> stored, left |-> stored]

\* Option::take of the stored output: 0 is None, n is the output of frame n
take(stored) == [ret |-> stored, left |-> 0]

\* EguiState::last_output
last_output_call(t) ==
    /\ Idle(t) /\ Acquire
    /\ last_output' = take(last_output).left
    /\ ret' = take(last_output).ret
    /\ Called("last_output", 0, FALSE)
    /\ UNCHANGED <<pointers, last_pointer_position, area, last_modifiers,
                   pressed, focused, events, kbd, lock, poisoned, pc, keys,
                   rpc, rarea, raw_input, rres, gl_state, frames, observe,
                   evIds, nextId, batchIds, handed, lastKey, kbd_feed, downs,
                   overlap_touch, damage, new_damage, dpc, extVars>>

\* KeyboardTarget::enter, up to the return of set_focused(true)
enter_call(t, ks) ==
    /\ Idle(t) /\ Acquire
    /\ Len(pressed) + Len(ks) <= MaxPressed
    /\ focused' = TRUE
    /\ pc' = [pc EXCEPT ![t] = "enter"]
    /\ keys' = [keys EXCEPT ![t] = ks]
    /\ UNCHANGED <<pointers, last_pointer_position, area, last_modifiers,
                   last_output, pressed, events, kbd, lock, poisoned, rpc,
                   rarea, raw_input, rres, gl_state, frames, observe, call, ret,
                   evIds, nextId, batchIds, handed, lastKey, kbd_feed, downs,
                   overlap_touch, damage, new_damage, dpc, extVars>>

\* the Key events of enter's loop over `keys`
RECURSIVE enter_events(_, _)
enter_events(ks, mods) ==
    IF ks = <<>> THEN <<>>
    ELSE LET key == convert_key(raw_syms(Head(ks)))
         IN (IF key # None THEN <<KeyEvent(key, TRUE, mods)>> ELSE <<>>)
            \o enter_events(Tail(ks), mods)

\* an enter that records no held key
enter_pressed_none(ks) == <<>>

\* the entries enter's loop adds to inner.pressed
enter_pressed(ks) ==
    [i \in 1..Len(ks) |-> <<convert_key(raw_syms(ks[i])), ks[i]>>]

\* an enter that does not feed the composition engine
enter_feeds_none(ks) == <<>>

\* the kbd.key_input calls of enter's loop
enter_feeds(ks) ==
    IF kbd # None THEN [i \in 1..Len(ks) |-> <<ks[i], TRUE>>] ELSE <<>>

\* KeyboardTarget::enter, the second critical section
enter_keys(t) ==
    /\ pc[t] = "enter" /\ Acquire
    /\ Push(enter_events(keys[t], last_modifiers))
    /\ pressed' = pressed \o enter_pressed(keys[t])
    /\ kbd_feed' = Note(enter_feeds(keys[t]), kbd_feed)
    /\ downs' = Note(OtherCalls, downs)
    /\ pc' = [pc EXCEPT ![t] = "idle"]
    /\ keys' = [keys EXCEPT ![t] = <<>>]
    /\ Called("enter", 0, FALSE)
    /\ UNCHANGED <<pointers, last_pointer_position, area, last_modifiers,
                   last_output, focused, kbd, lock, poisoned, rpc, rarea,
                   raw_input, rres, gl_state, frames, observe, ret, batchIds,
                   handed, overlap_touch, damage, new_damage, dpc, extVars>>

\* KeyboardTarget::leave, up to the return of set_focused(false)
leave_call(t) ==
    /\ Idle(t) /\ Acquire
    /\ focused' = FALSE
    /\ pc' = [pc EXCEPT ![t] = "leave"]
    /\ UNCHANGED <<pointers, last_pointer_position, area, last_modifiers,
                   last_output, pressed, events, kbd, lock, poisoned, keys,
                   rpc, rarea, raw_input, rres, gl_state, frames, observe, call,
                   ret, evIds, nextId, batchIds, handed, lastKey, kbd_feed,
                   downs, overlap_touch, damage, new_damage, dpc, extVars>>

\* KeyboardTarget::leave: std::mem::take of inner.pressed under its own guard
leave_take(t) ==
    /\ pc[t] = "leave" /\ Acquire
    /\ keys' = [keys EXCEPT ![t] = pressed]
    /\ pressed' = <<>>
    /\ pc' = [pc EXCEPT ![t] = "leave_taken"]
    /\ UNCHANGED <<pointers, last_pointer_position, area, last_modifiers,
                   last_output, focused, events, kbd, lock, poisoned, rpc,
                   rarea, raw_input, rres, gl_state, frames, observe, call, ret,
                   evIds, nextId, batchIds, handed, lastKey, kbd_feed, downs,
                   overlap_touch, damage, new_damage, dpc, extVars>>

\* a leave that appends no key-up
leave_events_none(ks, mods) == <<>>

\* the Key events of leave's loop over the taken entries
RECURSIVE leave_events(_, _)
leave_events(ks, mods) ==
    IF ks = <<>> THEN <<>>
    ELSE (IF Head(ks)[1] # None
          THEN <<KeyEvent(Head(ks)[1], FALSE, mods)>> ELSE <<>>)
         \o leave_events(Tail(ks), mods)

\* the kbd.key_input calls of leave's loop
leave_feeds(ks) ==
    IF kbd # None THEN [i \in 1..Len(ks) |-> <<ks[i][2], FALSE>>] ELSE <<>>

\* KeyboardTarget::leave, the last critical section
leave_keys(t) ==
    /\ pc[t] = "leave_taken" /\ Acquire
    /\ Push(leave_events(keys[t], last_modifiers))
    /\ kbd_feed' = Note(leave_feeds(keys[t]), kbd_feed)
    /\ downs' = Note(NoDowns, downs)
    /\ pc' = [pc EXCEPT ![t] = "idle"]
    /\ keys' = [keys EXCEPT ![t] = <<>>]
    /\ Called("leave", downs.n, downs.clean)
    /\ UNCHANGED <<pointers, last_pointer_position, area, last_modifiers,
                   last_output, pressed, focused, kbd, lock, poisoned, rpc,
                   rarea, raw_input, rres, gl_state, frames, observe, ret,
                   batchIds, handed, overlap_touch, damage, new_damage, dpc, extVars>>

----------------------------------------------------------------------------
(* EguiState::render *)

\* what can fail in render before the lock is taken: renderer.render, the
\* frame's with_context, and Painter::new compiling or linking its shaders
InitCauses == {"render", "with_context", "compile", "link"}

\* the error render returns for a failure before the lock: the `?` of lines
\* 277 and 279 hands on the renderer's own error, and
\* .map_err(|_| GlesError::ShaderCompileError) replaces whatever Painter::new
\* reported
init_error(cause) ==
    IF cause \in {"compile", "link"} THEN "ShaderCompileError"
    ELSE "GlesError of " \o cause

\* a render that fails after it took the queued events
render_init_fail_drained(a, cause) ==
    /\ rpc = "idle" /\ ~gl_state
    /\ rres' = "Err"
    /\ rerr' = init_error(cause)
    /\ rfail' = cause
    /\ events' = <<>>
    /\ evIds' = <<>>
    /\ UNCHANGED <<pointers, last_pointer_position, area, last_modifiers,
                   last_output, pressed, focused, kbd, lock, poisoned, pc,
                   keys, rpc, rarea, raw_input, gl_state, frames, observe, call,
                   ret, nextId, batchIds, handed, lastKey, kbd_feed,
                   downs, overlap_touch, damage, new_damage, dpc,
                   render_buffers, needs_recreate, rscale, other_area, rbefore,
                   paintVars, texVars, convVars, ptrVars>>

\* render when the painter cannot be initialised: returns before the lock
render_init_fail(a, cause) ==
    /\ rpc = "idle" /\ ~gl_state
    /\ rres' = "Err"
    /\ rerr' = init_error(cause)
    /\ rfail' = cause
    /\ UNCHANGED <<pointers, last_pointer_position, area, last_modifiers,
                   last_output, pressed, focused, events, kbd, lock, poisoned,
                   pc, keys, rpc, rarea, raw_input, gl_state, frames, observe, call,
                   ret, evIds, nextId, batchIds, handed, lastKey, kbd_feed,
                   downs, overlap_touch, damage, new_damage, dpc,
                   render_buffers, needs_recreate, rscale, other_area, rbefore,
                   paintVars, texVars, convVars, ptrVars>>

\* TextureRenderBuffer::from_texture on a buffer of area.size.to_buffer(
\* int_scale); `serial` tells the buffers of one instance apart
new_buffer(a, s, old) ==
    [w |-> a.size.w * s, h |-> a.size.h * s,
     serial |-> IF old = <<>> THEN 1 ELSE old[1].serial + 1]

\* render up to the entry of render_buffers: the lock is taken, and on the
\* first use of the instance the buffer is created; when create_buffer fails
\* there (bufOk is FALSE), .expect("Failed to create buffer") panics and the
\* unwinding drops the guard, which poisons the mutex
render_lock(a, s, bufOk) ==
    /\ rpc = "idle" /\ Acquire
    /\ frames < MaxFrames
    /\ render_buffers["self"] # <<>> => bufOk
    /\ gl_state' = TRUE
    /\ rarea' = a
    /\ rscale' = s
    /\ rbefore' = [area |-> area, buffers |-> render_buffers]
    /\ rerr' = None
    /\ IF bufOk
       THEN /\ lock' = "render"
            /\ rpc' = "locked"
            /\ rres' = None
            /\ rfail' = None
            /\ render_buffers' =
                  IF render_buffers["self"] = <<>>
                  THEN [render_buffers EXCEPT
                           !["self"] = <<new_buffer(a, s, <<>>)>>]
                  ELSE render_buffers
            /\ UNCHANGED poisoned
       ELSE /\ poisoned' = TRUE
            /\ rres' = "Panic"
            /\ rfail' = "create_buffer"
            /\ UNCHANGED <<lock, rpc, render_buffers>>
    /\ UNCHANGED <<pointers, last_pointer_position, area, last_modifiers,
                   last_output, pressed, focused, events, kbd, pc,
                   keys, raw_input, frames, observe, call, ret, evIds, nextId,
                   batchIds, handed, lastKey, kbd_feed, downs, overlap_touch,
                   damage, new_damage, dpc, needs_recreate, other_area,
                   paintVars, texVars, convVars, ptrVars>>

\* a drain that copies the queue and leaves it in place
drain_keep(queue) == [left |-> queue, batch |-> queue]

\* inner.events.drain(..).collect()
drain(queue) == [left |-> <<>>, batch |-> queue]

\* render from the RawInput to `inner.area = area`: the queue is drained
\* into the input of Context::run, whose platform output is stored; the
\* stored area is compared with the argument, location and size
render_update ==
    /\ rpc = "locked"
    /\ raw_input' = << [focused |-> focused,
                        events |-> drain(events).batch,
                        modifiers |-> convert_modifiers(last_modifiers)] >>
    /\ events' = drain(events).left
    /\ batchIds' = drain(evIds).batch
    /\ evIds' = drain(evIds).left
    /\ frames' = frames + 1
    /\ last_output' = frames + 1
    /\ needs_recreate' = (area # rarea)
    /\ area' = rarea
    /\ rpc' = "paint"
    /\ UNCHANGED <<pointers, last_pointer_position, last_modifiers, pressed,
                   focused, kbd, lock, poisoned, pc, keys, rarea, rres,
                   gl_state, observe, call, ret, nextId, handed, lastKey, kbd_feed,
                   downs, overlap_touch, damage, new_damage, dpc,
                   render_buffers, rscale, other_area, rerr, rfail, rbefore,
                   paintVars, texVars, convVars, ptrVars>>

\* render up to Context::run, when the `ui` callback calls an entry point of
\* the same EguiState (an input handler or last_output): the call locks
\* `inner` on the thread that holds the guard of line 292. std's Mutex
\* leaves that unspecified, "it might panic or deadlock": the panic unwinds
\* through render with the guard alive and poisons the mutex, the deadlock
\* leaves the render thread waiting for its own guard
render_ui_reenters(outcome) ==
    /\ rpc = "locked"
    /\ raw_input' = << [focused |-> focused,
                        events |-> drain(events).batch,
                        modifiers |-> convert_modifiers(last_modifiers)] >>
    /\ events' = drain(events).left
    /\ batchIds' = drain(evIds).batch
    /\ evIds' = drain(evIds).left
    /\ frames' = frames + 1
    /\ rfail' = "lock"
    /\ IF outcome = "panic"
       THEN /\ rres' = "Panic"
            /\ poisoned' = TRUE
            /\ lock' = "free"
            /\ rpc' = "idle"
       ELSE /\ rpc' = "stuck"
            /\ UNCHANGED <<rres, poisoned, lock>>
    /\ UNCHANGED <<pointers, last_pointer_position, area, last_modifiers,
                   last_output, pressed, focused, kbd, pc, keys, rarea,
                   gl_state, observe, call, ret, nextId, handed, lastKey,
                   kbd_feed, downs, overlap_touch, damage, new_damage, dpc,
                   render_buffers, needs_recreate, rscale, other_area, rerr,
                   rbefore, paintVars, texVars, convVars, ptrVars>>

\* render from the buffer recreation to the return: when the area changed
\* the buffer is replaced, and a failing create_buffer (bufOk is FALSE) is
\* returned by `?`; then the GPU painting; the guard `inner` is dropped when
\* the function returns
render_paint(bufOk, ok) ==
    /\ rpc = "paint"
    /\ ~needs_recreate => bufOk
    /\ IF bufOk
       THEN /\ render_buffers' =
                  IF needs_recreate
                  THEN [render_buffers EXCEPT
                           !["self"] = <<new_buffer(rarea, rscale,
                                                    render_buffers["self"])>>]
                  ELSE render_buffers
            /\ rres' = IF ok THEN "Ok" ELSE "Err"
            /\ rerr' = IF ok THEN None ELSE "GlesError of draw"
            /\ rfail' = IF ok THEN None ELSE "draw"
       ELSE /\ rres' = "Err"
            /\ rerr' = "GlesError of create_buffer"
            /\ rfail' = "create_buffer"
            /\ UNCHANGED render_buffers
    /\ needs_recreate' = FALSE
    /\ rpc' = "idle"
    /\ rarea' = area
    /\ raw_input' = <<>>
    /\ handed' = handed \cup Range(batchIds)
    /\ batchIds' = <<>>
    /\ lock' = "free"
    /\ UNCHANGED <<pointers, last_pointer_position, area, last_modifiers,
                   last_output, pressed, focused, events, kbd, poisoned, pc,
                   keys, gl_state, frames, observe, call, ret, evIds, nextId,
                   lastKey, kbd_feed, downs, overlap_touch, damage,
                   new_damage, dpc, rscale, other_area, rbefore,
                   paintVars, texVars, convVars, ptrVars>>

\* a whole successful render of the other instance with the same renderer:
\* its buffer is created on first use and replaced when its area changed
other_render(a, s) ==
    /\ rpc = "idle"
    /\ render_buffers["other"] # <<>>
          => render_buffers["other"][1].serial <= MaxFrames
    /\ gl_state' = TRUE
    /\ other_area' = a
    /\ LET first == IF render_buffers["other"] = <<>>
                    THEN <<new_buffer(a, s, <<>>)>>
                    ELSE render_buffers["other"]
       IN render_buffers' =
             [render_buffers EXCEPT
                 !["other"] = IF other_area # a
                              THEN <<new_buffer(a, s, first)>>
                              ELSE first]
    /\ UNCHANGED <<innerVars, lockVars, threadVars, rpc, rarea, raw_input,
                   rres, frames, ghostVars, dmgVars, needs_recreate, rscale,
                   rerr, rfail, rbefore, paintVars, texVars, convVars, ptrVars>>

----------------------------------------------------------------------------
(* src/src/rendering/mod.rs: the damage merge of GlState::paint_meshes *)

\* the rectangles damage lists are drawn from: some share pixels, some only
\* an edge, some are apart
DamageRects ==
    {Rect(x, y, w, h) : x \in {0, 3}, y \in {0, 3}, w \in {1, 4}, h \in {1, 4}}
        \cup {Rect(0, 0, 3, h) : h \in {1, 4}}

RECURSIVE SeqsUpTo(_, _)
SeqsUpTo(S, n) ==
    IF n = 0 THEN {<<>>}
    ELSE SeqsUpTo(S, n - 1)
         \cup {Append(q, e) : q \in {p \in SeqsUpTo(S, n - 1) : Len(p) = n - 1},
                              e \in S}

Min(a, b) == IF a < b THEN a ELSE b
Max(a, b) == IF a > b THEN a ELSE b

\* an overlap test that holds for every pair
overlaps_always(a, b, touch) == TRUE

\* Rectangle::overlaps of smithay. Its releases differ on rectangles that
\* only share an edge: `touch` is TRUE for a build against a release that
\* counts them as overlapping
overlaps(a, b, touch) ==
    IF touch
    THEN ~ \/ a.loc.x + a.size.w < b.loc.x
           \/ a.loc.x > b.loc.x + b.size.w
           \/ a.loc.y + a.size.h < b.loc.y
           \/ a.loc.y > b.loc.y + b.size.h
    ELSE /\ a.loc.x < b.loc.x + b.size.w
         /\ b.loc.x < a.loc.x + a.size.w
         /\ a.loc.y < b.loc.y + b.size.h
         /\ b.loc.y < a.loc.y + a.size.h

\* a merge that keeps the first rectangle
merge_first(a, b) == a

\* Rectangle::merge of smithay: the bounding box of both rectangles
merge(a, b) ==
    LET x0 == Min(a.loc.x, b.loc.x)
        y0 == Min(a.loc.y, b.loc.y)
        x1 == Max(a.loc.x + a.size.w, b.loc.x + b.size.w)
        y1 == Max(a.loc.y + a.size.h, b.loc.y + b.size.h)
    IN Rect(x0, y0, x1 - x0, y1 - y0)

\* for overlap in overlapping { rect = rect.merge(overlap) }
RECURSIVE merge_all(_, _)
merge_all(rect, overlapping) ==
    IF overlapping = <<>> THEN rect
    ELSE merge_all(merge(rect, Head(overlapping)), Tail(overlapping))

\* the closure of the fold: partition the list by overlap with `rect`, merge
\* `rect` with the overlapping ones, push it after the others
fold_step(acc, rect, touch) ==
    LET overlapping == SelectSeq(acc, LAMBDA other : overlaps(other, rect, touch))
        others == SelectSeq(acc, LAMBDA other : ~overlaps(other, rect, touch))
    IN Append(others, merge_all(rect, overlapping))

\* no primitive is being painted
NoPrimitives ==
    /\ location = Point(0, 0)
    /\ clipped_meshes = <<>>
    /\ ppc = 0
    /\ pres = None
    /\ gl_calls = <<>>

\* the state before paint_meshes is called
NotPainting ==
    /\ overlap_touch = FALSE
    /\ damage = <<>>
    /\ new_damage = <<>>
    /\ dpc = 0
    /\ NoPrimitives

\* the GL names GlState::new stored in the GlState
self_gl == [vertex_array |-> 1, vertex_buffer |-> 2, element_array_buffer |-> 3]

\* identifiers of textures managed by egui, and the names a GL context gives
\* to texture objects. egui_textures maps an identifier to <<>> (no entry)
\* or to <<[tex, size]>>
ManagedIds == {0, 1}
TexNames == {1, 2, 3}

\* no texture operation has been recorded
NoStep == [op |-> "none"]

\* a GL texture name without storage
NoStorage == [w |-> 0, h |-> 0, live |-> FALSE]

\* the bindings and capabilities of a context nothing was drawn in
GlDefault ==
    [SCISSOR_TEST |-> FALSE, VERTEX_ARRAY |-> 0, ARRAY_BUFFER |-> 0,
     ELEMENT_ARRAY_BUFFER |-> 0, TEXTURE_2D |-> 0]

\* a texture cache after a 4x4 image was uploaded for managed texture 0
OneTexture ==
    /\ egui_textures = [id \in ManagedIds |->
                           IF id = 0 THEN <<[size |-> <<4, 4>>, tex |-> 1]>>
                           ELSE <<>>]
    /\ gl_textures = [n \in TexNames |->
                         IF n = 1 THEN [w |-> 4, h |-> 4, live |-> TRUE]
                         ELSE NoStorage]
    /\ gl = [GlDefault EXCEPT !.TEXTURE_2D = 1]
    /\ tex_step = NoStep
    /\ uploads = 0

\* the texture cache of a new GlState: egui_textures: HashMap::new()
NoTextures ==
    /\ egui_textures = [id \in ManagedIds |-> <<>>]
    /\ gl_textures = [n \in TexNames |-> NoStorage]
    /\ gl = GlDefault
    /\ tex_step = NoStep
    /\ uploads = 0

\* no conversion function has been called
NoCall == [fn |-> "none"]
NotConverting == conv = NoCall

\* paint_meshes is called with a damage list
InitDamage ==
    /\ overlap_touch \in BOOLEAN
    /\ damage \in SeqsUpTo(DamageRects, MaxDamage)
    /\ new_damage = <<>>
    /\ dpc = 1
    /\ NoPrimitives

\* one iteration of the fold over `damage`
merge_damage ==
    /\ dpc >= 1 /\ dpc <= Len(damage)
    /\ new_damage' = fold_step(new_damage, damage[dpc], overlap_touch)
    /\ dpc' = dpc + 1
    /\ UNCHANGED <<pointers, last_pointer_position, area, last_modifiers,
                   last_output, pressed, focused, events, kbd, lock, poisoned,
                   pc, keys, rpc, rarea, raw_input, rres, gl_state, frames,
                   observe, call, ret, evIds, nextId, batchIds, handed, lastKey,
                   kbd_feed, downs, overlap_touch, damage, extVars>>

\* the fold has consumed the whole list
Merged == dpc = Len(damage) + 1

----------------------------------------------------------------------------
(* src/src/rendering/mod.rs: GlState::new; calls of the functions of
   src/src/input.rs *)

\* GL contexts GlState::new is called in: whether GetString(EXTENSIONS)
\* returns null, the extensions listed, the answer to
\* GetIntegerv(MAJOR_VERSION) (<<>> when the context does not know the
\* query and leaves the variable alone), and what fails in the program
GlExtensions == {"GL_EXT_sRGB", "GL_OES_vertex_array_object"}
GlContexts ==
    {[ext_null |-> TRUE, exts |-> {}, major |-> <<>>, fails |-> "nothing"]}
    \cup [ext_null : {FALSE}, exts : SUBSET GlExtensions,
          major : {<<>>, <<2>>, <<3>>},
          fails : {"nothing", "vertex", "fragment", "link"}]

\* a precondition that asks for the extension whatever the version
lacks_srgb_any_version(version, exts) == "GL_EXT_sRGB" \notin exts

\* version < 3 && !exts.iter().any(|ext| ext == "GL_EXT_sRGB")
lacks_srgb(version, exts) == version < 3 /\ "GL_EXT_sRGB" \notin exts

\* link_program: both shaders are compiled, then the program is linked
link_program(ctx) ==
    CASE ctx.fails = "vertex" ->
            [kind |-> "ShaderCompileError", what |-> "VERTEX_SHADER"]
      [] ctx.fails = "fragment" ->
            [kind |-> "ShaderCompileError", what |-> "FRAGMENT_SHADER"]
      [] ctx.fails = "link" -> [kind |-> "ProgramLinkError", what |-> ""]
      [] OTHER -> [kind |-> "Ok", what |-> ""]

\* GlState::new: the error, or Ok with the GlState it built
GlState_new(ctx) ==
    LET version == IF ctx.major = <<>> THEN 1 ELSE ctx.major[1]
        failed(kind, what) == [kind |-> kind, what |-> what, state |-> <<>>]
    IN IF ctx.ext_null THEN failed("GLFunctionLoaderError", "")
       ELSE IF lacks_srgb(version, ctx.exts)
       THEN failed("GLExtensionNotSupported", "GL_EXT_sRGB")
       ELSE IF "GL_OES_vertex_array_object" \notin ctx.exts
       THEN failed("GLExtensionNotSupported", "GL_OES_vertex_array_object")
       ELSE IF link_program(ctx).kind # "Ok"
       THEN failed(link_program(ctx).kind, link_program(ctx).what)
       ELSE [kind |-> "Ok", what |-> "",
             state |-> <<[egui_textures |-> [id \in ManagedIds |-> <<>>]]>>]

\* the keysyms of the match of TryFrom<KeysymConv>, and keysyms it lacks
ListedKeysyms ==
    {"Down", "Left", "Right", "Up", "Escape", "Tab", "BackSpace", "Return",
     "space", "Insert", "Delete", "Home", "End", "Page_Up", "Page_Down",
     "0", "1", "2", "3", "4", "5", "6", "7", "8", "9",
     "a", "b", "c", "d", "e", "f", "g", "h", "i", "j", "k", "l", "m",
     "n", "o", "p", "q", "r", "s", "t", "u", "v", "w", "x", "y", "z"}
UnlistedKeysyms == {"F1", "Shift_L", "A"}

\* the keysym sequences convert_key is called with: every single keysym,
\* and every sequence of up to MaxKeysyms out of two listed and two
\* unlisted keysyms
KeysymLists ==
    {<<k>> : k \in ListedKeysyms \cup UnlistedKeysyms}
    \cup SeqsUpTo({"a", "Escape", "F1", "Shift_L"}, MaxKeysyms)

\* smithay's ModifiersState, as far as convert_modifiers reads it
AllModifiers == [ctrl : BOOLEAN, alt : BOOLEAN, shift : BOOLEAN, logo : BOOLEAN]

\* ghost: a function was called with `arg` and returned `out`
Returns(fn, arg, out) ==
    /\ conv' = [fn |-> fn, arg |-> arg, out |-> out]
    /\ UNCHANGED <<innerVars, lockVars, threadVars, renderVars, ghostVars,
                   dmgVars, bufVars, paintVars, texVars, ptrVars>>

GlState_new_call(ctx) == Returns("GlState::new", ctx, GlState_new(ctx))

convert_key_call(syms) == Returns("convert_key", syms, convert_key(syms))

\* f64::round on a coordinate given in tenths: to the nearest integer, a
\* half away from zero
round(tenths) ==
    IF tenths >= 0 THEN (tenths + 5) \div 10 ELSE -((5 - tenths) \div 10)

\* Point::<f64, _>::to_i32_round
to_i32_round(point) == Point(round(point.x), round(point.y))

\* SpaceElement::is_in_input_region for a point given in tenths, the stored
\* pointer position and the answer of Context::wants_pointer_input; the
\* differences of the model's coordinates are far from the ends of i32
is_in_input_region(point, last_pos, wants_pointer) ==
    LET pos == to_i32_round(point)
    IN IF (pos.x - last_pos.x) + (pos.y - last_pos.y) < 10
       THEN wants_pointer
       ELSE FALSE

is_in_input_region_call(point, wants_pointer) ==
    /\ lock = "free" /\ ~poisoned
    /\ Returns("is_in_input_region",
               <<point, wants_pointer, last_pointer_position>>,
               is_in_input_region(point, last_pointer_position,
                                  wants_pointer))


convert_modifiers_call(macos, m) ==
    Returns("convert_modifiers", [macos |-> macos, modifiers |-> m],
            convert_modifiers_on(macos, m))

----------------------------------------------------------------------------
(* src/src/rendering/mod.rs: GlState::upload_textures and free_textures *)

\* a texture the integration created itself, whose name it hands to egui
\* as TextureId::User
UserTexture == 7
UserStorage == [w |-> 4, h |-> 4, live |-> TRUE]

\* the storage of the texture object a name stands for
storage(textures, n) == IF n \in TexNames THEN textures[n] ELSE UserStorage

\* the texture identifiers of the deltas and of the eviction notices
TextureIds == {<<"Managed", 0>>, <<"Managed", 1>>, <<"User", UserTexture>>}

\* epaint's ImageDelta: a whole image (pos is <<>>, Option::None) or a patch
\* whose top-left corner goes to <<x, y>>; w and h are the image's size
ImageDelta(pos, w, h) == [w |-> w, h |-> h, pos |-> pos]
ImageDeltas ==
    {ImageDelta(pos, n, n) : pos \in {<<>>, <<<<0, 0>>>>, <<<<2, 2>>>>},
                             n \in {2, 4}}

\* a DeleteTextures call that leaves the texture in place
DeleteTextures_none(textures, ctx, tex) == [ctx |-> ctx, textures |-> textures]

\* gl.DeleteTextures(1, tex): the name loses its storage, and a binding of
\* it reverts to 0
DeleteTextures(textures, ctx, tex) ==
    [ctx |-> IF ctx.TEXTURE_2D = tex THEN [ctx EXCEPT !.TEXTURE_2D = 0]
             ELSE ctx,
     textures |-> [textures EXCEPT ![tex] = NoStorage]]

\* the names gl.GenTextures can return: those that name no texture
FreeNames(textures) == {n \in TexNames : ~textures[n].live}

\* the guard of the first match arm: the recorded size holds the region
fits_recorded(entry, t_x, t_y, t_w, t_h) ==
    /\ entry # <<>>
    /\ entry[1].size[1] >= t_x + t_w
    /\ entry[1].size[2] >= t_y + t_h

\* the value inserted into egui_textures: (tex, [t_w, t_h])
recorded(tex, t_x, t_y, t_w, t_h) == [size |-> <<t_w, t_h>>, tex |-> tex]

\* one iteration of the loop of upload_textures, for the pair (id, delta);
\* `name` is the name gl.GenTextures returns when the iteration calls it.
\* gl.TexSubImage2D writes to the texture bound to TEXTURE_2D and fails
\* (GL_INVALID_VALUE) when the region leaves its storage
upload_texture(id, delta, name) ==
    /\ uploads < MaxUploads
    /\ uploads' = uploads + 1
    /\ LET t_x == IF delta.pos = <<>> THEN 0 ELSE delta.pos[1][1]
           t_y == IF delta.pos = <<>> THEN 0 ELSE delta.pos[1][2]
           t_w == delta.w
           t_h == delta.h
           entry == IF id[1] = "Managed" THEN egui_textures[id[2]] ELSE <<>>
           reuse == fits_recorded(entry, t_x, t_y, t_w, t_h)
           del == IF entry # <<>>
                  THEN DeleteTextures(gl_textures, gl, entry[1].tex)
                  ELSE [ctx |-> gl, textures |-> gl_textures]
           tex == IF reuse THEN entry[1].tex ELSE name
           textures == IF reuse THEN gl_textures
                       ELSE [del.textures EXCEPT
                                ![name] = [w |-> t_w, h |-> t_h, live |-> TRUE]]
           ctx == IF reuse THEN gl ELSE [del.ctx EXCEPT !.TEXTURE_2D = name]
           target == ctx.TEXTURE_2D
       IN IF id[1] # "Managed"
          THEN /\ name = 1
               /\ tex_step' = [op |-> "upload", id |-> id, delta |-> delta,
                               before |-> <<>>, old_alloc |-> <<>>,
                               deleted |-> <<>>, created |-> <<>>,
                               sub |-> <<>>]
               /\ UNCHANGED <<egui_textures, gl_textures, gl>>
          ELSE /\ IF reuse THEN name = 1 ELSE name \in FreeNames(del.textures)
               /\ gl_textures' = textures
               /\ gl' = ctx
               /\ egui_textures' =
                     [egui_textures EXCEPT
                         ![id[2]] = <<recorded(tex, t_x, t_y, t_w, t_h)>>]
               /\ tex_step' =
                     [op |-> "upload", id |-> id, delta |-> delta,
                      before |-> entry,
                      old_alloc |-> IF entry = <<>> THEN <<>>
                                    ELSE <<gl_textures[entry[1].tex]>>,
                      deleted |-> IF reuse \/ entry = <<>> THEN <<>>
                                  ELSE <<entry[1].tex>>,
                      created |-> IF reuse THEN <<>>
                                  ELSE <<[w |-> t_w, h |-> t_h, tex |-> name]>>,
                      sub |-> <<[x |-> t_x, y |-> t_y, w |-> t_w, h |-> t_h,
                                 ok |-> /\ target # 0
                                        /\ t_x + t_w
                                              <= storage(textures, target).w
                                        /\ t_y + t_h
                                              <= storage(textures, target).h,
                                 target |-> target]>>]
    /\ UNCHANGED <<innerVars, lockVars, threadVars, renderVars, ghostVars,
                   dmgVars, bufVars, paintVars, convVars, ptrVars>>

\* an iteration that frees nothing
free_texture_keep(id) ==
    /\ uploads < MaxUploads
    /\ uploads' = uploads + 1
    /\ tex_step' = [op |-> "free", id |-> id, delta |-> <<>>,
                    before |-> IF id[1] = "Managed" THEN egui_textures[id[2]]
                               ELSE <<>>,
                    old_alloc |-> <<>>, deleted |-> <<>>, created |-> <<>>,
                    sub |-> <<>>]
    /\ UNCHANGED <<egui_textures, gl_textures, gl>>
    /\ UNCHANGED <<innerVars, lockVars, threadVars, renderVars, ghostVars,
                   dmgVars, bufVars, paintVars, convVars, ptrVars>>

\* one iteration of the loop of free_textures, for the identifier id
free_texture(id) ==
    /\ uploads < MaxUploads
    /\ uploads' = uploads + 1
    /\ LET entry == IF id[1] = "Managed" THEN egui_textures[id[2]] ELSE <<>>
           del == IF entry # <<>>
                  THEN DeleteTextures(gl_textures, gl, entry[1].tex)
                  ELSE [ctx |-> gl, textures |-> gl_textures]
       IN /\ egui_textures' = IF entry # <<>>
                              THEN [egui_textures EXCEPT ![id[2]] = <<>>]
                              ELSE egui_textures
          /\ gl_textures' = del.textures
          /\ gl' = del.ctx
          /\ tex_step' = [op |-> "free", id |-> id, delta |-> <<>>,
                          before |-> entry, old_alloc |-> <<>>,
                          deleted |-> IF entry # <<>> THEN <<entry[1].tex>>
                                      ELSE <<>>,
                          created |-> <<>>, sub |-> <<>>]
    /\ UNCHANGED <<innerVars, lockVars, threadVars, renderVars, ghostVars,
                   dmgVars, bufVars, paintVars, convVars, ptrVars>>

----------------------------------------------------------------------------
(* src/src/rendering/mod.rs: the primitive loop of GlState::paint_meshes *)

\* egui's Rect, given by its corners
ClipRect(x0, y0, x1, y1) == [min |-> Point(x0, y0), max |-> Point(x1, y1)]

\* epaint's ClippedPrimitive: a mesh with its texture, or a paint callback
\* (which has no texture)
Mesh(clip_rect, texture_id) ==
    [clip_rect |-> clip_rect, texture_id |-> texture_id, primitive |-> "Mesh"]
Callback(clip_rect) ==
    [clip_rect |-> clip_rect, texture_id |-> <<"None", 0>>,
     primitive |-> "Callback"]

\* the primitives paint_meshes is called with: meshes with a user texture, a
\* cached managed texture and an unknown managed texture, and a callback
PaintPrimitives ==
    {Mesh(ClipRect(0, 0, 10, 10), <<"User", UserTexture>>),
     Mesh(ClipRect(18, 18, 22, 22), <<"User", UserTexture>>),
     Mesh(ClipRect(0, 0, 10, 10), <<"Managed", 0>>),
     Mesh(ClipRect(0, 0, 10, 10), <<"Managed", 1>>),
     Callback(ClipRect(0, 0, 10, 10))}

\* the damage rectangles paint_meshes is called with: apart from, inside,
\* across and on the edge of the clip rectangles
PaintRects == {Rect(20, 20, 10, 10), Rect(5, 5, 10, 10), Rect(10, 0, 5, 5),
               Rect(0, 0, 3, 3)}

\* the `location` arguments: the origin, and a point that moves a scissor
\* box across the left edge of the frame
PaintLocations == {Point(0, 0), Point(-7, 2)}

\* the `scale` argument; the frame's transformation is Transform::Normal
PaintScale == 1

\* Rectangle::from_extemities of smithay
from_extemities(topleft, bottomright) ==
    Rect(topleft.x, topleft.y, bottomright.x - topleft.x,
         bottomright.y - topleft.y)

\* Rectangle::intersection of smithay, on rectangles that overlap
intersection(a, b) ==
    from_extemities(Point(Max(a.loc.x, b.loc.x), Max(a.loc.y, b.loc.y)),
                    Point(Min(a.loc.x + a.size.w, b.loc.x + b.size.w),
                          Min(a.loc.y + a.size.h, b.loc.y + b.size.h)))

\* a filter that lets every damage rectangle through
damage_hits_all(dmg, clip_rectangle, touch) == dmg

\* damage.iter().map(|d| d.to_f64()).filter(|d| d.overlaps(clip_rectangle))
damage_hits(dmg, clip_rectangle, touch) ==
    SelectSeq(dmg, LAMBDA d : overlaps(d, clip_rectangle, touch))

\* the scissor box of one damage rectangle: the intersection, scaled (the
\* coordinates are whole numbers, so rounding changes nothing), transformed
\* (Transform::Normal changes nothing), moved by `location`; gl.Scissor is
\* given each component or 0 when it is negative
scissor_box(clip_rectangle, d, loc) ==
    LET i == intersection(clip_rectangle, d)
    IN [x |-> Max(i.loc.x * PaintScale + loc.x, 0),
        y |-> Max(i.loc.y * PaintScale + loc.y, 0),
        w |-> Max(i.size.w * PaintScale, 0),
        h |-> Max(i.size.h * PaintScale, 0)]

\* a lookup that draws with texture 1 when the cache has no entry
mesh_texture_default(texture_id, cache) ==
    IF texture_id[1] = "Managed"
    THEN IF cache[texture_id[2]] = <<>> THEN <<1>>
         ELSE <<cache[texture_id[2]][1].tex>>
    ELSE <<texture_id[2]>>

\* the match on mesh.texture_id of paint_mesh: <<name of the texture>>, or
\* <<>> where .expect("Unknown managed texture id") panics. A User handle
\* is a u64 and `tex as u32` keeps its low 32 bits: the handles used here
\* are GL texture names, which are below 2^32
mesh_texture(texture_id, cache) ==
    IF texture_id[1] = "Managed"
    THEN IF cache[texture_id[2]] = <<>> THEN <<>>
         ELSE <<cache[texture_id[2]][1].tex>>
    ELSE <<texture_id[2]>>

\* the GL calls of the inner loop for primitive number i that is drawn: per
\* damage rectangle a scissor, then paint_mesh binding the texture and the
\* buffers and drawing
RECURSIVE draw_calls(_, _, _, _, _)
draw_calls(i, clip_rectangle, hits, loc, tex) ==
    IF hits = <<>> THEN <<>>
    ELSE <<[op |-> "Scissor", prim |-> i,
            box |-> scissor_box(clip_rectangle, Head(hits), loc)],
           [op |-> "BindTexture", tex |-> tex, prim |-> i],
           [op |-> "DrawElements", prim |-> i]>>
         \o draw_calls(i, clip_rectangle, Tail(hits), loc, tex)

\* paint_meshes is entered, for the first time or after a call that
\* returned: the set-up before the damage merge
paint_meshes_call(loc, dmg, prims) ==
    /\ pres = "Ok" \/ (dpc = 0 /\ ppc = 0 /\ pres = None)
    /\ pres' = None
    /\ location' = loc
    /\ damage' = dmg
    /\ new_damage' = <<>>
    /\ dpc' = 1
    /\ clipped_meshes' = prims
    /\ ppc' = 1
    /\ gl_calls' = <<>>
    /\ gl' = [gl EXCEPT !.SCISSOR_TEST = TRUE,
                        !.VERTEX_ARRAY = self_gl.vertex_array]
    /\ UNCHANGED <<innerVars, lockVars, threadVars, renderVars, ghostVars,
                   overlap_touch, bufVars, egui_textures, gl_textures,
                   tex_step, uploads, convVars, ptrVars>>

\* one iteration of the loop over the primitives, with its inner loop over
\* the damage rectangles that overlap the clip rectangle. A callback
\* (unimplemented!()) and a mesh with an unknown managed texture panic after
\* the first scissor
paint_primitive ==
    /\ Merged /\ pres = None
    /\ ppc >= 1 /\ ppc <= Len(clipped_meshes)
    /\ LET p == clipped_meshes[ppc]
           clip_rectangle == from_extemities(p.clip_rect.min, p.clip_rect.max)
           hits == damage_hits(new_damage, clip_rectangle, overlap_touch)
           tex == mesh_texture(p.texture_id, egui_textures)
       IN IF hits = <<>>
          THEN /\ ppc' = ppc + 1
               /\ UNCHANGED <<pres, gl_calls, gl>>
          ELSE IF p.primitive = "Callback" \/ tex = <<>>
          THEN /\ pres' = "panic"
               /\ gl_calls' = Append(gl_calls,
                      [op |-> "Scissor", prim |-> ppc,
                       box |-> scissor_box(clip_rectangle, Head(hits),
                                           location)])
               /\ UNCHANGED <<ppc, gl>>
          ELSE /\ ppc' = ppc + 1
               /\ gl_calls' = gl_calls \o draw_calls(ppc, clip_rectangle, hits,
                                                     location, tex[1])
               /\ gl' = [gl EXCEPT
                           !.TEXTURE_2D = tex[1],
                           !.ARRAY_BUFFER = self_gl.vertex_buffer,
                           !.ELEMENT_ARRAY_BUFFER = self_gl.element_array_buffer]
               /\ pres' = pres
    /\ UNCHANGED <<innerVars, lockVars, threadVars, renderVars, ghostVars,
                   dmgVars, bufVars, location, clipped_meshes, egui_textures,
                   gl_textures, tex_step, uploads, convVars, ptrVars>>

\* a return that leaves the buffers bound
paint_return_bound ==
    /\ Merged /\ pres = None
    /\ ppc = Len(clipped_meshes) + 1
    /\ gl' = [gl EXCEPT !.VERTEX_ARRAY = 0, !.SCISSOR_TEST = FALSE]
    /\ pres' = "Ok"
    /\ UNCHANGED <<innerVars, lockVars, threadVars, renderVars, ghostVars,
                   dmgVars, bufVars, location, clipped_meshes, ppc, gl_calls,
                   egui_textures, gl_textures, tex_step, uploads, convVars,
                   ptrVars>>

\* after the loop: the bindings are reset and Ok(()) is returned
paint_return ==
    /\ Merged /\ pres = None
    /\ ppc = Len(clipped_meshes) + 1
    /\ gl' = [gl EXCEPT !.VERTEX_ARRAY = 0, !.ELEMENT_ARRAY_BUFFER = 0,
                        !.ARRAY_BUFFER = 0, !.SCISSOR_TEST = FALSE]
    /\ pres' = "Ok"
    /\ UNCHANGED <<innerVars, lockVars, threadVars, renderVars, ghostVars,
                   dmgVars, bufVars, location, clipped_meshes, ppc, gl_calls,
                   egui_textures, gl_textures, tex_step, uploads, convVars, ptrVars>>

----------------------------------------------------------------------------
(* Specifications *)

TheArea == Rect(0, 0, 8, 6)

\* the render thread, rendering the same area every frame
Render ==
    \/ \E cause \in {"render", "compile"} : render_init_fail(TheArea, cause)
    \/ render_lock(TheArea, 1, TRUE)
    \/ render_update
    \/ \E ok \in BOOLEAN : render_paint(TRUE, ok)

\* Spec: two input threads and the render thread; the events are numbered
Init == InitEgui /\ kbd # None /\ observe = {"ids"} /\ NotPainting
    /\ NoTextures /\ NotConverting

InputCall(t) ==
    \/ handle_device_removed(t, FALSE)
    \/ \E p \in BOOLEAN : handle_keyboard(t, 38, p, ModDefault)
    \/ handle_pointer_motion(t, Point(5, 7))
    \/ \E b \in MouseButtons : handle_pointer_button(t, b, TRUE)
    \/ \E a \in AxisAmounts : handle_pointer_axis(t, a[1], a[2])
    \/ enter_call(t, <<38>>)
    \/ enter_keys(t)
    \/ leave_call(t)
    \/ leave_take(t)
    \/ leave_keys(t)

Next == (\E t \in Threads : InputCall(t)) \/ Render

Spec == Init /\ [][Next]_vars

\* SeqSpec: the keyboard calls of one input thread, and the render thread,
\* whose renders succeed
SeqInit == InitEgui /\ observe = {"keys"} /\ NotPainting
    /\ NoTextures /\ NotConverting

SeqRender ==
    \/ render_lock(TheArea, 1, TRUE)
    \/ render_update
    \/ render_paint(TRUE, TRUE)

KeyboardCall(t) ==
    \/ \E code \in TypedKeycodes, p \in BOOLEAN :
          handle_keyboard(t, code, p, ModDefault)
    \/ \E m \in ModStates : modifiers(t, m)
    \/ \E ks \in HeldKeys : enter_call(t, ks)
    \/ enter_keys(t)
    \/ leave_call(t)
    \/ leave_take(t)
    \/ leave_keys(t)

SeqNext == (\E t \in SeqThreads : KeyboardCall(t)) \/ SeqRender

SeqSpec == SeqInit /\ [][SeqNext]_vars

\* OutSpec: renders, and two threads that fetch the platform output
OutInit == InitEgui /\ kbd # None /\ observe = {} /\ NotPainting
    /\ NoTextures /\ NotConverting

OutNext ==
    \/ \E t \in Threads : last_output_call(t)
    \/ \E t \in Threads : handle_pointer_motion(t, Point(5, 7))
    \/ \E t \in Threads, f \in BOOLEAN : set_focused(t, f)
    \/ Render

OutSpec == OutInit /\ [][OutNext]_vars

\* DmgSpec: the damage merge of paint_meshes on every damage list
DmgInit == InitEgui /\ kbd # None /\ observe = {} /\ InitDamage
    /\ NoTextures /\ NotConverting

DmgNext == merge_damage

DmgSpec == DmgInit /\ [][DmgNext]_vars

\* PaintSpec: one call of paint_meshes, from its set-up to its return
PaintInit ==
    /\ InitEgui /\ kbd # None /\ observe = {}
    /\ overlap_touch \in BOOLEAN
    /\ damage = <<>> /\ new_damage = <<>> /\ dpc = 0
    /\ NoPrimitives
    /\ OneTexture /\ NotConverting

PaintNext ==
    \/ /\ dpc = 0
       /\ \E loc \in PaintLocations,
             dmg \in SeqsUpTo(PaintRects, MaxPaintDamage),
             prims \in SeqsUpTo(PaintPrimitives, MaxMeshes) :
             paint_meshes_call(loc, dmg, prims)
    \/ merge_damage
    \/ paint_primitive
    \/ paint_return

PaintSpec == PaintInit /\ [][PaintNext]_vars

\* BufSpec: renders of two instances with one renderer, with areas and
\* scales that change and calls that fail
BufAreas == {Rect(0, 0, 8, 6), Rect(1, 0, 8, 6), Rect(0, 0, 4, 4)}
IntScales == {1, 2}

BufInit ==
    /\ InitEgui /\ kbd # None /\ observe = {}
    /\ NotPainting /\ NoTextures /\ NotConverting

BufNext ==
    \/ \E a \in BufAreas, cause \in InitCauses : render_init_fail(a, cause)
    \/ \E a \in BufAreas, s \in IntScales, bufOk \in BOOLEAN :
          render_lock(a, s, bufOk)
    \/ render_update
    \/ \E bufOk, ok \in BOOLEAN : render_paint(bufOk, ok)
    \/ \E a \in BufAreas, s \in IntScales : other_render(a, s)

BufSpec == BufInit /\ [][BufNext]_vars

\* PtrSpec: pointer motion and pointer buttons, given as MouseButton and as
\* evdev code, from two threads
AllMouseButtons == {"Left", "Middle", "Right", "Forward", "Back", "Other"}
ButtonCodes == {272, 273, 274, 275, 277, 278}

PtrInit ==
    /\ InitEgui /\ kbd # None /\ observe = {"buttons"}
    /\ NotPainting /\ NoTextures /\ NotConverting

PtrNext ==
    \E t \in Threads :
       \/ handle_pointer_motion(t, Point(5, 7))
       \/ \E b \in AllMouseButtons, p \in BOOLEAN : handle_pointer_button(t, b, p)
       \/ \E code \in ButtonCodes, p \in BOOLEAN :
             PointerTarget_button(t, code, p)

PtrSpec == PtrInit /\ [][PtrNext]_vars

\* AxisSpec: pointer axis events of the backend, handled as the example
\* does, and direct calls of handle_pointer_axis, from two threads
AxisEvents ==
    [amount : {<<<<>>, <<>>>>, <<<<>>, <<0>>>>, <<<<>>, <<5>>>>},
     discrete : {<<<<>>, <<>>>>, <<<<>>, <<1>>>>, <<<<1>>, <<-2>>>>},
     source : {"Wheel", "Finger"}]

AxisInit ==
    /\ InitEgui /\ kbd # None /\ observe = {}
    /\ NotPainting /\ NoTextures /\ NotConverting

AxisNext ==
    \/ \E t \in Threads, event \in AxisEvents : integrate_pointer_axis(t, event)
    \/ \E t \in Threads, a \in AxisAmounts : handle_pointer_axis(t, a[1], a[2])
    \/ SeqRender

AxisSpec == AxisInit /\ [][AxisNext]_vars

(***************************************************************************)
(* StampSpec: two threads move the pointer, store modifier states (through *)
(* KeyboardTarget::modifiers and through handle_keyboard) and press        *)
(* buttons, and the render thread drains the queue.                        *)
(***************************************************************************)
StampInit ==
    /\ InitEgui /\ kbd = None /\ observe = {}
    /\ NotPainting /\ NoTextures /\ NotConverting

StampNext ==
    \/ \E t \in Threads, position \in Points : handle_pointer_motion(t, position)
    \/ \E t \in Threads, m \in ModStates : modifiers(t, m)
    \/ \E t \in Threads, m \in ModStates : handle_keyboard(t, 67, FALSE, m)
    \/ \E t \in Threads, b \in MouseButtons, p \in BOOLEAN :
          handle_pointer_button(t, b, p)
    \/ SeqRender

StampSpec == StampInit /\ [][StampNext]_vars

(***************************************************************************)
(* KeySpec: key-down and key-up calls of two threads for a mapped and an   *)
(* unmapped key, under changing modifiers, with and without composition    *)
(* engine, and renders.                                                    *)
(***************************************************************************)
KeyInit ==
    /\ InitEgui /\ observe = {"keys", "held"}
    /\ NotPainting /\ NoTextures /\ NotConverting

KeyNext ==
    \/ \E t \in Threads, code \in TypedKeycodes, p \in BOOLEAN, m \in ModStates :
          handle_keyboard(t, code, p, m)
    \/ \E t \in Threads, m \in ModStates : modifiers(t, m)
    \/ SeqRender

KeySpec == KeyInit /\ [][KeyNext]_vars

(***************************************************************************)
(* UiSpec: renders whose `ui` callback may call back into the EguiState,   *)
(* next to two threads that move the pointer and fetch the output.         *)
(***************************************************************************)
ReentryOutcomes == {"panic", "deadlock"}

UiInit ==
    /\ InitEgui /\ kbd # None /\ observe = {}
    /\ NotPainting /\ NoTextures /\ NotConverting

UiNext ==
    \/ \E t \in Threads, position \in Points : handle_pointer_motion(t, position)
    \/ \E t \in Threads : last_output_call(t)
    \/ render_lock(TheArea, 1, TRUE)
    \/ render_update
    \/ \E outcome \in ReentryOutcomes : render_ui_reenters(outcome)
    \/ render_paint(TRUE, TRUE)

UiSpec == UiInit /\ [][UiNext]_vars

(***************************************************************************)
(* LeaveSpec: KeyboardTarget::leave on one thread while another thread     *)
(* calls handle_keyboard, and renders.                                     *)
(***************************************************************************)
LeaveInit ==
    /\ InitEgui /\ kbd # None /\ observe = {"keys"}
    /\ NotPainting /\ NoTextures /\ NotConverting

LeaveNext ==
    \/ \E t \in Threads, code \in TypedKeycodes, p \in BOOLEAN :
          handle_keyboard(t, code, p, ModDefault)
    \/ \E t \in Threads : leave_call(t) \/ leave_take(t) \/ leave_keys(t)
    \/ SeqRender

LeaveSpec == LeaveInit /\ [][LeaveNext]_vars

(***************************************************************************)
(* ModSpec: KeyboardTarget::modifiers and KeyboardTarget::key called by    *)
(* two threads, and renders.                                               *)
(***************************************************************************)
ModInit ==
    /\ InitEgui /\ kbd # None /\ observe = {}
    /\ NotPainting /\ NoTextures /\ NotConverting

ModNext ==
    \/ \E t \in Threads, m \in ModStates : modifiers(t, m)
    \/ \E t \in Threads, code \in TypedKeycodes, p \in BOOLEAN :
          KeyboardTarget_key_read(t, code, p)
    \/ \E t \in Threads : KeyboardTarget_key_handle(t)
    \/ SeqRender

ModSpec == ModInit /\ [][ModNext]_vars

(***************************************************************************)
(* DevSpec: input devices with and without pointer capability, added and   *)
(* removed by two threads in any order, and renders.                       *)
(***************************************************************************)
DevInit ==
    /\ InitEgui /\ kbd # None /\ observe = {"keys"}
    /\ NotPainting /\ NoTextures /\ NotConverting

DevNext ==
    \/ \E t \in Threads, cap \in BOOLEAN : handle_device_added(t, cap)
    \/ \E t \in Threads, cap \in BOOLEAN : handle_device_removed(t, cap)
    \/ SeqRender

DevSpec == DevInit /\ [][DevNext]_vars

(***************************************************************************)
(* RegionSpec: the pointer moves, and is_in_input_region is asked about    *)
(* points around it, with either answer of the toolkit.                    *)
(***************************************************************************)
\* coordinates of the asked points in tenths: -11.0, -0.5, 0.4, 5.0, 9.5,
\* 10.0 and 25.0
RegionTenths == {-110, -5, 4, 50, 95, 100, 250}
RegionPoints == {Point(x, y) : x, y \in RegionTenths}
RegionPositions == {Point(0, 0), Point(5, 7)}

RegionInit ==
    /\ InitEgui /\ kbd # None /\ observe = {}
    /\ NotPainting /\ NoTextures /\ NotConverting

RegionNext ==
    \/ \E t \in Threads, position \in RegionPositions :
          handle_pointer_motion(t, position)
    \/ \E point \in RegionPoints, wants \in BOOLEAN :
          is_in_input_region_call(point, wants)
    \/ SeqRender

RegionSpec == RegionInit /\ [][RegionNext]_vars

\* FnSpec: calls of the functions that read no state
FnInit ==
    /\ InitEgui /\ kbd # None /\ observe = {}
    /\ NotPainting /\ NoTextures /\ NotConverting

FnNext ==
    \/ \E ctx \in GlContexts : GlState_new_call(ctx)
    \/ \E syms \in KeysymLists : convert_key_call(syms)
    \/ \E macos \in BOOLEAN, m \in AllModifiers :
          convert_modifiers_call(macos, m)

FnSpec == FnInit /\ [][FnNext]_vars

\* TexSpec: texture deltas and eviction notices processed by a GlState
TexInit ==
    /\ InitEgui /\ kbd # None /\ observe = {}
    /\ NotPainting /\ NoTextures /\ NotConverting

TexNext ==
    \/ \E id \in TextureIds, delta \in ImageDeltas, name \in TexNames :
          upload_texture(id, delta, name)
    \/ \E id \in TextureIds : free_texture(id)

TexSpec == TexInit /\ [][TexNext]_vars

\* GpuSpec: the calls a painter makes on one GlState, frame after frame:
\* texture deltas, eviction notices and paint_meshes with one primitive
GpuPrimitives ==
    {Mesh(ClipRect(0, 0, 10, 10), <<"User", UserTexture>>),
     Mesh(ClipRect(0, 0, 10, 10), <<"Managed", 0>>),
     Mesh(ClipRect(0, 0, 10, 10), <<"Managed", 1>>)}
GpuDamage == {<<Rect(5, 5, 10, 10)>>, <<Rect(20, 20, 10, 10)>>}

\* paint_meshes has been entered and has not returned
Painting == ppc # 0 /\ pres = None

GpuInit ==
    /\ InitEgui /\ kbd # None /\ observe = {}
    /\ NotPainting /\ NoTextures /\ NotConverting

GpuNext ==
    \/ /\ ~Painting /\ pres # "panic"
       /\ \E id \in TextureIds, delta \in ImageDeltas, name \in TexNames :
             upload_texture(id, delta, name)
    \/ /\ ~Painting /\ pres # "panic"
       /\ \E id \in TextureIds : free_texture(id)
    \/ /\ ~Painting
       /\ \E dmg \in GpuDamage, p \in GpuPrimitives :
             paint_meshes_call(Point(0, 0), dmg, <<p>>)
    \/ merge_damage
    \/ paint_primitive
    \/ paint_return

GpuSpec == GpuInit /\ [][GpuNext]_vars

----------------------------------------------------------------------------
(* Properties of the event queue and of render (Spec, OutSpec) *)

IsIncreasing(q) == \A i \in 1..(Len(q) - 1) : q[i] < q[i + 1]

\* C1: every event appended to inner.events is handed to the toolkit by
\* exactly one render, in the order of appending: the ids handed over by
\* earlier renders, the ids of the batch of the render in progress and the
\* ids still queued are, in this order, 1, 2, .. up to the last id given
\* out, and a render's drain leaves no event behind for a later batch.
C1_EventsOnceInOrder ==
    /\ Len(evIds) = Len(events)
    /\ rpc = "paint" => /\ Len(batchIds) = Len(raw_input[1].events)
                        /\ events = <<>>
    /\ handed \cup Range(batchIds) \cup Range(evIds) = 1..(nextId - 1)
    /\ IsIncreasing(batchIds \o evIds)
    /\ \A h \in handed : \A i \in Range(batchIds \o evIds) : h < i

\* the second render takes a batch made of the events appended after the
\* drain of the first, which had taken a batch of its own
C1_Witness ==
    /\ rpc = "paint" /\ frames = 2
    /\ handed # {}
    /\ Len(raw_input[1].events) = 2
    /\ batchIds = <<2, 3>>

\* C6: the lock is released before the GPU painting of render starts, so
\* that input handlers do not wait for the painting.
C6_LockFreeWhilePainting == rpc = "paint" => lock = "free"

\* C7: the platform output of a render is returned by one last_output call,
\* which clears it: the stored output is that of the latest frame or none,
\* an output that was returned is not stored any more, and a call returns
\* what was stored and leaves nothing.
C7_OutputTakenOnce ==
    /\ [](/\ last_output \in {0, frames}
          /\ ret # 0 => last_output # ret)
    /\ [][(last_output # 0 /\ last_output' # last_output /\ frames' = frames)
          => (ret' = last_output /\ last_output' = 0)]_vars

\* a successful render's output has been fetched and is gone
C7_Witness ==
    /\ rpc = "idle" /\ rres = "Ok" /\ frames = 2
    /\ ret = 2 /\ last_output = 0

----------------------------------------------------------------------------
(* Properties of the keyboard calls (SeqSpec) *)

\* the input call `op` returns in this step
Returned(op) == call' # call /\ call'.op = op

\* the events this step appends to inner.events
Appended == SubSeq(events', Len(events) + 1, Len(events'))

KeyDowns(q) == SelectSeq(q, LAMBDA e : e.type = "Key" /\ e.pressed)
KeyUps(q) == SelectSeq(q, LAMBDA e : e.type = "Key" /\ ~e.pressed)
FeedDowns(q) == SelectSeq(q, LAMBDA f : f[2])
FeedUps(q) == SelectSeq(q, LAMBDA f : ~f[2])
Codes(q) == [i \in 1..Len(q) |-> q[i][2]]

\* C2 as stated: after key-down calls (mapped or unmapped keys) without
\* key-up calls, leave appends as many key-up Key events, and feeds as many
\* key-ups to the composition engine, as there are outstanding key-down
\* calls, and leaves inner.pressed empty.
C2_LeaveReleasesEveryKeyDown ==
    [][(Returned("leave") /\ downs.clean)
       => /\ Len(KeyUps(Appended)) = downs.n
          /\ Len(FeedUps(kbd_feed')) = downs.n
          /\ pressed' = <<>>]_vars

\* C2 amended: after key-down calls without key-up calls, leave appends one
\* key-up Key event for every outstanding key-down call of a key that has a
\* logical mapping (and nothing else), feeds one key-up per outstanding
\* key-down call to the composition engine when one is loaded (none
\* otherwise), and leaves inner.pressed empty.
C2_LeaveReleasesPressedKeys ==
    [][(Returned("leave") /\ downs.clean)
       => /\ Len(KeyUps(Appended)) = downs.mapped
          /\ Len(Appended) = downs.mapped
          /\ Len(FeedUps(kbd_feed')) = (IF kbd # None THEN downs.n ELSE 0)
          /\ Len(kbd_feed') = Len(FeedUps(kbd_feed'))
          /\ pressed' = <<>>]_vars

\* leave has returned after two outstanding key-down calls and nothing else,
\* one of a key without a logical mapping; both were fed to the engine as
\* key-ups and the one key-up Key event is queued
C2_Witness ==
    /\ call.op = "leave" /\ call.code = 2 /\ call.pressed
    /\ kbd_feed = << <<38, FALSE>>, <<67, FALSE>> >>
    /\ pressed = <<>>
    /\ events # <<>>
    /\ events[Len(events)].type = "Key"
    /\ ~events[Len(events)].pressed

C4_EnterReplaysEveryKey ==
    [][\A t \in SeqThreads :
         (pc[t] = "enter" /\ Returned("enter"))
         => /\ focused'
            /\ Len(KeyDowns(Appended)) = Len(keys[t])
            /\ Len(FeedDowns(kbd_feed')) = Len(keys[t])
            /\ Codes(pressed') = Codes(pressed) \o keys[t]]_vars

\* the key-down Key events enter owes for the held keys `ks`: one for every
\* key with a logical mapping, in list order
HeldKeyDowns(ks, mods) ==
    LET mapped == SelectSeq(ks, LAMBDA c : convert_key(raw_syms(c)) # None)
    IN [i \in 1..Len(mapped) |->
          [pressed |-> TRUE, modifiers |-> convert_modifiers(mods),
           key |-> convert_key(raw_syms(mapped[i])), type |-> "Key",
           repeat |-> FALSE]]

\* C4 amended: enter sets focused and, in list order, appends a key-down Key
\* event (pressed, no repeat, the current last_modifiers) for every key of
\* the list that has a logical mapping, feeds a key-down for every key of
\* the list to the composition engine when one is loaded (none otherwise),
\* and records every keycode of the list, with its logical key, at the end
\* of inner.pressed.
C4_EnterReplaysHeldKeys ==
    [][\A t \in SeqThreads :
         (pc[t] = "enter" /\ Returned("enter"))
         => /\ focused'
            /\ Appended = HeldKeyDowns(keys[t], last_modifiers)
            /\ kbd_feed' = (IF kbd # None
                            THEN [i \in 1..Len(keys[t]) |-> <<keys[t][i], TRUE>>]
                            ELSE <<>>)
            /\ Len(pressed') = Len(pressed) + Len(keys[t])
            /\ SubSeq(pressed', 1, Len(pressed)) = pressed
            /\ \A i \in 1..Len(keys[t]) :
                  pressed'[Len(pressed) + i] =
                      <<convert_key(raw_syms(keys[t][i])), keys[t][i]>>]_vars

\* enter has returned for the held keys F1 and a while ctrl was the last
\* modifier state: one Key event, two feeds, two entries
C4_Witness ==
    /\ call.op = "enter"
    /\ focused
    /\ kbd_feed = << <<67, TRUE>>, <<38, TRUE>> >>
    /\ pressed = << <<None, 67>>, <<"A", 38>> >>
    /\ events # <<>>
    /\ events[Len(events)] = KeyEvent("A", TRUE, ModCtrl)

\* C5: a handle_keyboard call for a key-down, with a composition engine
\* loaded, appends exactly one Text event, carrying the text composed for
\* the keycode, as the last event of the call, after the Key event of the
\* keystroke when the key has a logical mapping; a call for a key-up
\* appends no Text event.
C5_TextAfterKey ==
    [][Returned("handle_keyboard")
       => LET new == Appended
              key == convert_key(raw_syms(call'.code))
              texts == SelectSeq(new, LAMBDA e : e.type = "Text")
              keyEvs == SelectSeq(new, LAMBDA e : e.type = "Key")
          IN /\ (call'.pressed /\ kbd # None)
                => /\ Len(texts) = 1
                   /\ new[Len(new)] = [type |-> "Text",
                                       text |-> get_utf8(call'.code)]
                   /\ Len(keyEvs) = (IF key # None THEN 1 ELSE 0)
                   /\ key # None => /\ Len(new) = 2
                                    /\ new[1].type = "Key"
                                    /\ new[1].key = key
                                    /\ new[1].pressed
             /\ ~call'.pressed => texts = <<>>]_vars

\* a key-down of a has queued its Key event and then the text "a"
C5_Witness ==
    /\ call.op = "handle_keyboard" /\ call.code = 38 /\ call.pressed
    /\ kbd # None
    /\ Len(events) >= 2
    /\ events[Len(events)] = TextEvent("a")
    /\ events[Len(events) - 1].type = "Key"
    /\ events[Len(events) - 1].key = "A"
    /\ events[Len(events) - 1].pressed

----------------------------------------------------------------------------
(* Properties of the damage merge (DmgSpec) *)

\* the pixels of a rectangle, and of a list of rectangles
Pixels(r) ==
    {<<x, y>> : x \in r.loc.x..(r.loc.x + r.size.w - 1),
                y \in r.loc.y..(r.loc.y + r.size.h - 1)}
Covered(q) == UNION {Pixels(q[i]) : i \in 1..Len(q)}

MinOf(S) == CHOOSE m \in S : \A e \in S : m <= e
MaxOf(S) == CHOOSE m \in S : \A e \in S : m >= e

\* the smallest rectangle that contains every rectangle of the non-empty
\* set S
BoundingBox(S) ==
    LET x0 == MinOf({r.loc.x : r \in S})
        y0 == MinOf({r.loc.y : r \in S})
        x1 == MaxOf({r.loc.x + r.size.w : r \in S})
        y1 == MaxOf({r.loc.y + r.size.h : r \in S})
    IN [loc |-> [x |-> x0, y |-> y0], size |-> [w |-> x1 - x0, h |-> y1 - y0]]

\* C8: the damage list produced by the merge step of paint_meshes contains
\* no two rectangles that overlap each other (that share a pixel).
C8_MergedDamageDisjoint ==
    Merged => \A i, j \in 1..Len(new_damage) :
                 i # j => Pixels(new_damage[i]) \cap Pixels(new_damage[j]) = {}

\* C9 as stated: the merged rectangles cover exactly the pixels the input
\* rectangles cover.
C9_MergedCoversExactly == Merged => Covered(new_damage) = Covered(damage)

\* C9 amended: the merge step drops no damaged pixel, and the pixels it adds
\* lie inside the bounding box of the input: every pixel covered by the
\* input rectangles is covered by the merged rectangles, and every merged
\* rectangle lies inside the smallest rectangle containing the input.
C9_MergedCoversDamage ==
    Merged => /\ Covered(damage) \subseteq Covered(new_damage)
              /\ damage # <<>>
                 => Covered(new_damage) \subseteq Pixels(BoundingBox(Range(damage)))

\* three rectangles were merged into one that covers them and more
C9_Witness ==
    /\ Merged
    /\ Len(damage) = 3
    /\ Len(new_damage) = 1
    /\ Covered(damage) \subseteq Covered(new_damage)
    /\ Covered(damage) # Covered(new_damage)

\* the grid points of a rectangle, its right and bottom edges included
Corners(r) ==
    {<<x, y>> : x \in r.loc.x..(r.loc.x + r.size.w),
                y \in r.loc.y..(r.loc.y + r.size.h)}

\* no two entries of the list overlap: they share no pixel and, in a build
\* whose Rectangle::overlaps counts a shared edge, no edge point either
PairwiseNonOverlapping(q, touch) ==
    \A i, j \in 1..Len(q) :
       i # j => IF touch THEN Corners(q[i]) \cap Corners(q[j]) = {}
                ELSE Pixels(q[i]) \cap Pixels(q[j]) = {}

\* C10: merging a list of pairwise non-overlapping rectangles returns the
\* same list; for every input the output has at most as many rectangles as
\* the input, and each output rectangle is the merge (the bounding box) of
\* one or more input rectangles.
C10_MergeIdentityOnDisjoint ==
    Merged => /\ PairwiseNonOverlapping(damage, overlap_touch)
                 => new_damage = damage
              /\ Len(new_damage) <= Len(damage)
              /\ \A i \in 1..Len(new_damage) :
                    \E S \in (SUBSET Range(damage)) \ {{}} :
                       new_damage[i] = BoundingBox(S)

\* three rectangles that are apart came out of the merge as they went in
C10_Witness ==
    /\ Merged
    /\ Len(damage) = 3
    /\ PairwiseNonOverlapping(damage, overlap_touch)
    /\ overlap_touch
    /\ new_damage = damage

----------------------------------------------------------------------------
(* Properties of the primitive loop of paint_meshes (PaintSpec) *)

\* two rectangles do not overlap: they share no pixel and, in a build whose
\* Rectangle::overlaps counts a shared edge, no edge point either
Apart(a, b, touch) ==
    IF touch THEN Corners(a) \cap Corners(b) = {}
    ELSE Pixels(a) \cap Pixels(b) = {}

\* the clip rectangle of primitive number i
ClipRectangle(i) ==
    LET c == clipped_meshes[i].clip_rect
    IN Rect(c.min.x, c.min.y, c.max.x - c.min.x, c.max.y - c.min.y)

\* the GL calls issued for primitive number i
CallsOf(i) == SelectSeq(gl_calls, LAMBDA c : c.prim = i)

\* C11: in paint_meshes, a primitive whose clip rectangle overlaps none of
\* the merged damage rectangles causes no scissor setting and no draw call.
C11_UndamagedPrimitiveNotDrawn ==
    Merged => \A i \in 1..Len(clipped_meshes) :
                 (\A j \in 1..Len(new_damage) :
                     Apart(ClipRectangle(i), new_damage[j], overlap_touch))
                 => CallsOf(i) = <<>>

\* paint_meshes returned after a mesh clipped to (0,0)-(10,10) was skipped
\* and a mesh inside the only damage rectangle (20,20)-(30,30) was drawn
C11_Witness ==
    /\ pres = "Ok"
    /\ damage = <<Rect(20, 20, 10, 10)>>
    /\ Len(clipped_meshes) = 2
    /\ clipped_meshes[1] = Mesh(ClipRect(0, 0, 10, 10), <<"User", UserTexture>>)
    /\ CallsOf(1) = <<>>
    /\ Len(CallsOf(2)) = 3

----------------------------------------------------------------------------
(* Properties of the texture cache (TexSpec) *)

\* the latest step was an upload for a managed texture that had an entry
UploadedOver == /\ tex_step.op = "upload"
                /\ tex_step.before # <<>>

\* the bottom-right corner of the region the latest delta was aimed at
RegionExtent ==
    LET d == tex_step.delta
    IN IF d.pos = <<>> THEN <<d.w, d.h>>
       ELSE <<d.pos[1][1] + d.w, d.pos[1][2] + d.h>>

\* C12: in upload_textures, a delta whose target region (pos + image size)
\* exceeds the entry's allocated size causes exactly one reallocation whose
\* dimensions cover the union of the old allocation and the new region, and
\* the entry's recorded size afterwards is that allocation; a delta whose
\* region lies inside the current allocation causes no reallocation.
C12_ReallocationCoversUnion ==
    UploadedOver =>
       LET old == tex_step.old_alloc[1]
           ext == RegionExtent
           now == egui_textures[tex_step.id[2]][1]
       IN IF ext[1] > old.w \/ ext[2] > old.h
          THEN /\ Len(tex_step.created) = 1
               /\ tex_step.created[1].w >= Max(old.w, ext[1])
               /\ tex_step.created[1].h >= Max(old.h, ext[2])
               /\ now.size = <<tex_step.created[1].w, tex_step.created[1].h>>
          ELSE tex_step.created = <<>>

\* the latest step was an iteration of free_textures
Freed == tex_step.op = "free"

\* C13: free_textures for a managed identifier destroys that entry's GPU
\* texture exactly once and removes the cache entry, so that a later lookup
\* finds nothing; freeing an identifier that has no entry changes nothing;
\* the entries of other identifiers, and their textures, are unchanged.
C13_FreeRemovesOnlyThatEntry ==
    [][(uploads' = uploads + 1 /\ tex_step'.op = "free") =>
         LET id == tex_step'.id
             entry == IF id[1] = "Managed" THEN egui_textures[id[2]] ELSE <<>>
         IN /\ entry # <<>> =>
                  /\ tex_step'.deleted = <<entry[1].tex>>
                  /\ gl_textures[entry[1].tex].live
                  /\ ~gl_textures'[entry[1].tex].live
                  /\ egui_textures'[id[2]] = <<>>
            /\ entry = <<>> =>
                  /\ tex_step'.deleted = <<>>
                  /\ UNCHANGED <<egui_textures, gl_textures, gl>>
            /\ \A o \in ManagedIds :
                  (id[1] = "Managed" => o # id[2]) =>
                     /\ egui_textures'[o] = egui_textures[o]
                     /\ egui_textures[o] # <<>> =>
                           gl_textures'[egui_textures[o][1].tex]
                              = gl_textures[egui_textures[o][1].tex]
      ]_vars

\* the texture of identifier 0 was freed while identifier 1 keeps its entry
C13_Witness ==
    /\ Freed
    /\ tex_step.id = <<"Managed", 0>>
    /\ Len(tex_step.deleted) = 1
    /\ egui_textures[0] = <<>>
    /\ egui_textures[1] # <<>>
    /\ gl_textures[egui_textures[1][1].tex].live

----------------------------------------------------------------------------
(* Properties of the render buffers and of the errors of render (BufSpec) *)

\* C14: a buffer-allocation failure during render, on first use of the
\* instance's render buffer or on recreation, is returned to the caller as
\* an Err value: render does not panic, and the EguiState stays usable (its
\* mutex is not poisoned).
C14_BufferFailureReturned ==
    rfail = "create_buffer" => rres = "Err" /\ ~poisoned

\* the error kind that names the cause of a failed initialisation
ErrorOfCause(cause) ==
    CASE cause = "compile" -> "ShaderCompileError"
      [] cause = "link" -> "ProgramLinkError"
      [] OTHER -> "GlesError of " \o cause

\* C16: an initialisation failure is reported with the error kind of its
\* cause (a shader that fails to compile as ShaderCompileError, a failed
\* link as ProgramLinkError); no cause is reported as a different kind.
C16_InitErrorNamesCause ==
    rfail \in InitCauses => rerr = ErrorOfCause(rfail)

\* the latest render of the instance returned Ok
RenderedOk == rpc = "idle" /\ rres = "Ok"

\* C17: the render buffer of an instance is created on its first render, is
\* reused unchanged by a later render whose area has the same size, and is
\* recreated by a render whose area size differs from the previous render's;
\* a render of one instance never replaces the buffer of another.
C17_BufferPerInstanceAndSize ==
    /\ [](RenderedOk =>
            LET b0 == rbefore.buffers["self"]
                b1 == render_buffers["self"]
            IN /\ b1 # <<>>
               /\ b0 # <<>> /\ rbefore.area.size = area.size => b1 = b0
               /\ b0 # <<>> /\ rbefore.area.size # area.size
                     => b1[1].serial # b0[1].serial)
    /\ [][(render_buffers'["self"] # render_buffers["self"]
              => (rpc # "idle" \/ rpc' # "idle"))
           /\ (render_buffers'["other"] # render_buffers["other"]
              => (rpc = "idle" /\ rpc' = "idle"))]_vars

----------------------------------------------------------------------------
(* Properties of GlState::new and of the conversion functions (FnSpec) *)

\* the context lists the vertex array object extension
HasVertexArrays(ctx) == "GL_OES_vertex_array_object" \in ctx.exts

\* the context is GL-ES 3 or later, or lists the sRGB extension
HasSrgb(ctx) ==
    \/ ctx.major # <<>> /\ ctx.major[1] >= 3
    \/ "GL_EXT_sRGB" \in ctx.exts

\* C15: GlState::new succeeds only if the context exposes vertex array
\* objects and either GL-ES 3 or the GL_EXT_sRGB extension; when one of the
\* two is missing it returns GLExtensionNotSupported naming a missing
\* extension and builds no GlState; a context that has both is not rejected
\* by the precondition check.
C15_PreconditionCheck ==
    conv.fn = "GlState::new" =>
       LET ctx == conv.arg
           out == conv.out
       IN /\ out.kind = "Ok"
               => ~ctx.ext_null /\ HasVertexArrays(ctx) /\ HasSrgb(ctx)
          /\ out.kind # "Ok" => out.state = <<>>
          /\ ~ctx.ext_null /\ ~(HasVertexArrays(ctx) /\ HasSrgb(ctx))
               => /\ out.kind = "GLExtensionNotSupported"
                  /\ out.what \in GlExtensions \ ctx.exts
                  /\ out.what = "GL_EXT_sRGB" => ~HasSrgb(ctx)
          /\ ~ctx.ext_null /\ HasVertexArrays(ctx) /\ HasSrgb(ctx)
               => out.kind # "GLExtensionNotSupported"

\* a GL-ES 2 context that lists GL_EXT_sRGB but no vertex array objects
\* was rejected with the name of the extension it lacks
C15_Witness ==
    /\ conv.fn = "GlState::new"
    /\ conv.arg.major = <<2>>
    /\ conv.arg.exts = {"GL_EXT_sRGB"}
    /\ conv.arg.fails = "nothing"
    /\ conv.out.kind = "GLExtensionNotSupported"
    /\ conv.out.what = "GL_OES_vertex_array_object"
    /\ conv.out.state = <<>>

\* the index of the first keysym of the sequence that the table lists, 0
\* when there is none
FirstListed(syms) ==
    LET listed == {i \in 1..Len(syms) : syms[i] \in ListedKeysyms}
    IN IF listed = {} THEN 0
       ELSE CHOOSE i \in listed : \A j \in listed : i <= j

\* C18: convert_key returns the key of the first keysym of the sequence
\* that the conversion table lists, and None when the sequence is empty or
\* holds no listed keysym; a one-element sequence with a listed keysym
\* returns that keysym's key.
C18_FirstListedKeysym ==
    conv.fn = "convert_key" =>
       LET syms == conv.arg
           i == FirstListed(syms)
       IN /\ i = 0 => conv.out = None
          /\ i # 0 => conv.out = TryFromKeysym(syms[i]) /\ conv.out # None
          /\ Len(syms) = 1 /\ syms[1] \in ListedKeysyms
               => conv.out = TryFromKeysym(syms[1])

\* a key whose first keysym is unlisted and whose second is listed
C18_Witness ==
    /\ conv.fn = "convert_key"
    /\ conv.arg = <<"Shift_L", "Escape">>
    /\ conv.out = "Escape"

\* C19: convert_modifiers copies alt, ctrl and shift; in a build for
\* another platform than macOS command is ctrl and mac_cmd is false; in a
\* build for macOS command and mac_cmd are logo; two calls with equal input
\* return equal output.
C19_ModifiersConverted ==
    /\ [](conv.fn = "convert_modifiers" =>
            LET m == conv.arg.modifiers
                out == conv.out
            IN /\ out.alt = m.alt /\ out.ctrl = m.ctrl /\ out.shift = m.shift
               /\ ~conv.arg.macos => out.command = m.ctrl /\ out.mac_cmd = FALSE
               /\ conv.arg.macos => out.command = m.logo /\ out.mac_cmd = m.logo)
    /\ [][(/\ conv.fn = "convert_modifiers"
            /\ conv'.fn = "convert_modifiers"
            /\ conv'.arg = conv.arg) => conv'.out = conv.out]_vars

\* the logo key alone was converted in a build for another platform than
\* macOS: neither command nor mac_cmd is set
C19_Witness ==
    /\ conv.fn = "convert_modifiers"
    /\ ~conv.arg.macos
    /\ conv.arg.modifiers.logo /\ ~conv.arg.modifiers.ctrl
    /\ ~conv.out.command /\ ~conv.out.mac_cmd

----------------------------------------------------------------------------
(* Properties of the pointer buttons (PtrSpec) *)

\* the egui button of a MouseButton, None for a button egui has none for
\* (and for an evdev code without MouseButton)
ExpectedButton(b) ==
    IF b = "Left" THEN "Primary"
    ELSE IF b = "Middle" THEN "Middle"
    ELSE IF b = "Right" THEN "Secondary"
    ELSE None

\* C20: convert_button maps Left to Primary, Middle to Middle, Right to
\* Secondary and every other button to None; handle_pointer_button (and
\* PointerTarget::button) with a button that has no mapping appends no
\* event and leaves the whole EguiInner unchanged, while a mapped button is
\* forwarded as one PointerButton event.
C20_UnmappedButtonIgnored ==
    [][btn'.flip # btn.flip =>
         LET b == btn'.button
         IN /\ convert_button(b) = ExpectedButton(b)
            /\ ExpectedButton(b) = None => UNCHANGED innerVars
            /\ ExpectedButton(b) # None =>
                  /\ Len(events') = Len(events) + 1
                  /\ SubSeq(events', 1, Len(events)) = events
                  /\ events'[Len(events')].type = "PointerButton"
                  /\ events'[Len(events')].button = ExpectedButton(b)
                  /\ events'[Len(events')].pressed = btn'.pressed
                  /\ UNCHANGED <<pointers, last_pointer_position, area,
                                 last_modifiers, last_output, pressed, focused,
                                 kbd>>
    ]_vars

\* a press of the Forward button came after a press of the Left button: the
\* queue holds the event of the Left button only
C20_Witness ==
    /\ btn.button = "Forward"
    /\ btn.pressed
    /\ Len(events) = 1
    /\ events[1].type = "PointerButton"
    /\ events[1].button = "Primary"

----------------------------------------------------------------------------
(* Properties of the pointer axis (AxisSpec) *)

\* C21: a pointer-axis event with a discrete vertical step of 1 and no
\* continuous amount, delivered through PointerTarget::axis, appends one
\* Scroll event whose vertical component is 1 * 3.0 = 3.0.
C21_DiscreteStepScrolls ==
    [][(/\ axis_call'.flip # axis_call.flip
        /\ axis_call'.frame[1].vertical.discrete = <<1>>
        /\ axis_call'.frame[1].vertical.value = <<3>>)
       => /\ Len(events') = Len(events) + 1
          /\ events'[Len(events')].type = "Scroll"
          /\ events'[Len(events')].y = 3]_vars

----------------------------------------------------------------------------
(* Properties of the texture cache and the painting (GpuSpec) *)

\* primitive number i overlaps a merged damage rectangle
Damaged(i) ==
    \E j \in 1..Len(new_damage) :
       ~Apart(ClipRectangle(i), new_damage[j], overlap_touch)

\* this step is the iteration of the primitive loop for primitive ppc
PaintsPrimitive ==
    /\ pres = None /\ Merged
    /\ ppc \in 1..Len(clipped_meshes)
    /\ ppc' = ppc + 1 \/ pres' = "panic"

\* C22: a mesh with a managed texture identifier that has no cache entry
\* aborts the painting (no texture is bound and nothing is drawn for it); a
\* mesh with a User texture handle is drawn with that handle; an upload or
\* an eviction for a User identifier changes neither the cache nor the
\* textures of the context.
C22_UnknownManagedFatalUserDirect ==
    [][/\ (PaintsPrimitive /\ Damaged(ppc)
           /\ clipped_meshes[ppc].primitive = "Mesh") =>
             LET id == clipped_meshes[ppc].texture_id
                 calls == SelectSeq(gl_calls', LAMBDA c : c.prim = ppc)
                 ops == {calls[k].op : k \in 1..Len(calls)}
             IN /\ (id[1] = "Managed" /\ egui_textures[id[2]] = <<>>)
                      => /\ pres' = "panic"
                         /\ ops \cap {"BindTexture", "DrawElements"} = {}
                /\ id[1] = "User"
                      => /\ pres' = None
                         /\ "DrawElements" \in ops
                         /\ \A k \in 1..Len(calls) :
                               calls[k].op = "BindTexture"
                                  => calls[k].tex = id[2]
       /\ (uploads' # uploads /\ tex_step'.id[1] = "User")
             => UNCHANGED <<egui_textures, gl_textures>>
    ]_vars

\* after a delta for a User identifier was ignored, a mesh with managed
\* texture 1, which has no entry, has stopped the painting
C22_Witness ==
    /\ pres = "panic"
    /\ clipped_meshes = <<Mesh(ClipRect(0, 0, 10, 10), <<"Managed", 1>>)>>
    /\ egui_textures[1] = <<>>
    /\ tex_step.op = "upload"
    /\ tex_step.id[1] = "User"

----------------------------------------------------------------------------
(* Properties of the draw calls of paint_meshes (PaintSpec) *)

\* the merged damage rectangles that overlap the clip rectangle of
\* primitive number i, in the order of the merged list
DamageOver(i) ==
    SelectSeq(new_damage,
              LAMBDA d : ~Apart(ClipRectangle(i), d, overlap_touch))

\* the part of the frame (x >= 0, y >= 0) covered by the intersection of
\* rectangles a and b, moved by loc
IntersectionInFrame(a, b, loc) ==
    LET x0 == Max(Max(a.loc.x, b.loc.x) + loc.x, 0)
        y0 == Max(Max(a.loc.y, b.loc.y) + loc.y, 0)
        x1 == Max(Min(a.loc.x + a.size.w, b.loc.x + b.size.w) + loc.x, x0)
        y1 == Max(Min(a.loc.y + a.size.h, b.loc.y + b.size.h) + loc.y, y0)
    IN [x |-> x0, y |-> y0, w |-> x1 - x0, h |-> y1 - y0]

\* C23: when paint_meshes returns, the draw calls were issued in the order
\* of the primitives (every call of an earlier primitive precedes every
\* call of a later one), and every mesh got one indexed draw call per
\* merged damage rectangle that overlaps its clip rectangle, each preceded
\* by a scissor set to the intersection of the clip rectangle and that
\* damage rectangle, at the draw location.
C23_DrawOrderAndScissor ==
    pres = "Ok" =>
       /\ \A a, b \in 1..Len(gl_calls) :
             a < b => gl_calls[a].prim <= gl_calls[b].prim
       /\ \A i \in 1..Len(clipped_meshes) :
             LET calls == CallsOf(i)
                 over == DamageOver(i)
             IN /\ Len(calls) = 3 * Len(over)
                /\ \A k \in 1..Len(over) :
                      /\ calls[3 * k - 2].op = "Scissor"
                      /\ calls[3 * k - 2].box
                            = IntersectionInFrame(ClipRectangle(i), over[k],
                                                  location)
                      /\ calls[3 * k].op = "DrawElements"

\* C24: whenever paint_meshes returns, for any damage list and any list of
\* primitives, the scissor test is disabled and the vertex array, the
\* element array buffer and the array buffer are unbound.
C24_GlStateRestored ==
    pres = "Ok" => /\ ~gl.SCISSOR_TEST
                   /\ gl.VERTEX_ARRAY = 0
                   /\ gl.ELEMENT_ARRAY_BUFFER = 0
                   /\ gl.ARRAY_BUFFER = 0

\* paint_meshes returned after two meshes were drawn, which bound the
\* buffers with the scissor test enabled
C24_Witness ==
    /\ pres = "Ok"
    /\ Len(clipped_meshes) = 2
    /\ \A i \in 1..2 : \E k \in 1..Len(gl_calls) :
          gl_calls[k].prim = i /\ gl_calls[k].op = "DrawElements"

(***************************************************************************)
(* C25: every PointerButton event appended by handle_pointer_button        *)
(* carries the position given to the latest handle_pointer_motion call     *)
(* before it, (0, 0) if there was none, converted to f32, and the          *)
(* conversion of the modifier state stored latest before it, whatever the  *)
(* interleaving of the motion, modifier and button calls of the threads.   *)
(***************************************************************************)
ButtonAppended ==
    /\ Len(events') = Len(events) + 1
    /\ events'[Len(events')].type = "PointerButton"

C25_ButtonCarriesLatest ==
    [][ButtonAppended =>
          /\ events'[Len(events')].pos = Pos2(stamp.pos.x, stamp.pos.y)
          /\ events'[Len(events')].modifiers = convert_modifiers(stamp.mods)]_vars

\* a button event stamped with a moved pointer and a held Ctrl, queued
\* behind another event
C25_Witness ==
    /\ Len(events) >= 2
    /\ events[Len(events)].type = "PointerButton"
    /\ events[Len(events)].pos = Pos2(3, 16777217)
    /\ events[Len(events)].modifiers = convert_modifiers(ModCtrl)
    /\ stamp.pos = Point(3, 16777217)
    /\ stamp.mods = ModCtrl

(***************************************************************************)
(* C26: a key-down call of handle_keyboard appends one entry with the raw  *)
(* keycode to EguiInner.pressed, whether or not the key has a logical      *)
(* mapping; a key-up call removes every entry with that keycode and keeps  *)
(* the other entries as they are; and EguiInner.pressed holds entries      *)
(* exactly for the keycodes whose latest call was a key-down, so that it   *)
(* is empty once every key-down was followed by its key-up.                *)
(***************************************************************************)
KeyboardStep ==
    call'.flip # call.flip /\ call'.op = "handle_keyboard"

PressedCodes == {pressed[i][2] : i \in DOMAIN pressed}

C26_PressedBookkeeping ==
    /\ [][KeyboardStep /\ call'.pressed =>
             /\ Len(pressed') = Len(pressed) + 1
             /\ SubSeq(pressed', 1, Len(pressed)) = pressed
             /\ pressed'[Len(pressed')][2] = call'.code]_vars
    /\ [][KeyboardStep /\ ~call'.pressed =>
             pressed' = SelectSeq(pressed, LAMBDA e : e[2] # call'.code)]_vars
    /\ [](PressedCodes = stamp.held)

\* a key-up of the unmapped key leaves the entry of the mapped key, which
\* is still down
C26_Witness ==
    /\ call.op = "handle_keyboard" /\ call.code = 67 /\ ~call.pressed
    /\ pressed = << <<"A", 38>> >>
    /\ stamp.held = {38}

(***************************************************************************)
(* C27: a handle_keyboard call for a key without logical mapping appends   *)
(* no Key event, and still stores the modifiers, still updates             *)
(* EguiInner.pressed, still feeds the keycode to the composition engine    *)
(* and, on a key-down, still appends the Text event.                       *)
(***************************************************************************)
UnmappedStep ==
    KeyboardStep /\ convert_key(raw_syms(call'.code)) = None

StoresAndRecords ==
    /\ Len(events') >= Len(events)
    /\ SubSeq(events', 1, Len(events)) = events
    /\ \A i \in DOMAIN Appended : Appended[i].type # "Key"
    /\ last_modifiers' = stamp'.mods
    /\ pressed' = IF call'.pressed
                  THEN Append(pressed, <<None, call'.code>>)
                  ELSE SelectSeq(pressed, LAMBDA e : e[2] # call'.code)

C27_UnmappedKeyFeedsAndTypes ==
    [][UnmappedStep =>
          /\ StoresAndRecords
          /\ kbd_feed' = << <<call'.code, call'.pressed>> >>
          /\ call'.pressed => Appended = <<TextEvent(get_utf8(call'.code))>>]_vars

(***************************************************************************)
(* C27, amended: as above, where the keycode is fed and the Text event is  *)
(* appended when a composition engine is loaded; with EguiInner.kbd = None *)
(* nothing is fed and nothing is appended.                                 *)
(***************************************************************************)
C27_UnmappedKeyDropsOnlyKeyEvent ==
    [][UnmappedStep =>
          /\ StoresAndRecords
          /\ kbd_feed' = IF kbd # None
                         THEN << <<call'.code, call'.pressed>> >> ELSE <<>>
          /\ Appended = IF kbd # None /\ call'.pressed
                        THEN <<TextEvent(get_utf8(call'.code))>> ELSE <<>>]_vars

\* a key-down of F1 under Ctrl with a composition engine: no Key event, a
\* Text event, an entry without logical key, a feed
C27_Witness ==
    /\ call.op = "handle_keyboard" /\ call.code = 67 /\ call.pressed
    /\ kbd # None
    /\ last_modifiers = ModCtrl
    /\ events = <<TextEvent(get_utf8(67))>>
    /\ pressed = << <<None, 67>> >>
    /\ kbd_feed = << <<67, TRUE>> >>

(***************************************************************************)
(* C28: a render call that fails before Context::run, in the painter       *)
(* initialisation, leaves EguiInner as it was (queued events, last_output, *)
(* area, focus and the other fields); every event pushed so far is still   *)
(* queued when it returns, and the next render that reaches Context::run   *)
(* hands over the whole queue.                                             *)
(***************************************************************************)
InitFails ==
    /\ rres' = "Err" /\ rfail' \in InitCauses
    /\ <<rres', rfail'>> # <<rres, rfail>>

RenderUpdates == rpc = "locked" /\ rpc' = "paint"

C28_InitFailureKeepsInner ==
    /\ [][InitFails =>
             UNCHANGED <<pointers, last_pointer_position, area,
                         last_modifiers, last_output, pressed, focused,
                         events, evIds, kbd, lock, poisoned>>]_vars
    /\ [](rfail \in InitCauses =>
             /\ Len(events) = Len(evIds)
             /\ Range(evIds) = 1..(nextId - 1))
    /\ [][RenderUpdates =>
             /\ raw_input'[1].events = events
             /\ batchIds' = evIds
             /\ events' = <<>>]_vars

\* the first renderer.render of the initialisation failed with two events
\* in the queue
C28_Witness ==
    /\ rres = "Err" /\ rfail = "render" /\ ~gl_state
    /\ Len(events) = 2 /\ evIds = <<1, 2>>

(***************************************************************************)
(* C29: in upload_textures the sub-image copy of a delta writes into the   *)
(* GPU texture the cache holds for the delta's own identifier, whether the *)
(* texture was just allocated or an existing one is reused, for every      *)
(* sequence of deltas and of paint_meshes calls before it.                 *)
(***************************************************************************)
C29_SubImageTargetsOwnTexture ==
    (tex_step.op = "upload" /\ tex_step.id[1] = "Managed") =>
        tex_step.sub[1].target = egui_textures[tex_step.id[2]][1].tex

(***************************************************************************)
(* C30: after every sequence of upload_textures and free_textures calls,   *)
(* the width and height recorded in each egui_textures entry are the       *)
(* dimensions its GPU texture was allocated with.                          *)
(***************************************************************************)
C30_RecordedSizeIsAllocation ==
    \A id \in ManagedIds :
       egui_textures[id] # <<>> =>
          LET entry == egui_textures[id][1]
          IN entry.size = <<gl_textures[entry.tex].w, gl_textures[entry.tex].h>>

(***************************************************************************)
(* C31: every sub-image copy of upload_textures targets a region inside    *)
(* the allocated dimensions of the texture it writes to: offset plus size  *)
(* is at most the allocated width and height, for whole images and         *)
(* patches, after a first allocation and after a reallocation.             *)
(***************************************************************************)
C31_SubImageInsideAllocation ==
    (tex_step.op = "upload" /\ tex_step.id[1] = "Managed") =>
        LET sub == tex_step.sub[1]
        IN /\ sub.target # 0
           /\ sub.x + sub.w <= storage(gl_textures, sub.target).w
           /\ sub.y + sub.h <= storage(gl_textures, sub.target).h

(***************************************************************************)
(* C32: after every sequence of upload_textures and free_textures calls,   *)
(* every egui_textures entry refers to a GPU texture that was created and  *)
(* not deleted, no two entries refer to the same texture, and every        *)
(* texture upload_textures created that no entry refers to has been        *)
(* deleted.                                                                *)
(***************************************************************************)
Cached == {id \in ManagedIds : egui_textures[id] # <<>>}

C32_EntriesLiveDistinctNoLeak ==
    /\ \A id \in Cached :
          /\ egui_textures[id][1].tex \in TexNames
          /\ gl_textures[egui_textures[id][1].tex].live
    /\ \A a, b \in Cached :
          egui_textures[a][1].tex = egui_textures[b][1].tex => a = b
    /\ \A n \in TexNames :
          gl_textures[n].live => \E id \in Cached : egui_textures[id][1].tex = n

\* a delta replaced the texture of one entry while the other entry is held
C32_Witness ==
    /\ tex_step.op = "upload"
    /\ Len(tex_step.deleted) = 1
    /\ Len(tex_step.created) = 1
    /\ Cached = ManagedIds

(***************************************************************************)
(* C33: render does not hold the mutex of EguiInner while the `ui`         *)
(* callback runs: the guard is not held across Context::run, a call of an  *)
(* entry point made by the callback completes (it neither panics nor       *)
(* waits for ever), and render never waits for its own lock.               *)
(***************************************************************************)
C33_CallbackRunsUnlocked ==
    /\ [][rpc = "locked" /\ rpc' = "paint" =>
             lock # "render" \/ lock' # "render"]_vars
    /\ [](rpc # "stuck")
    /\ [](~(rres = "Panic" /\ rfail = "lock"))

(***************************************************************************)
(* C34: KeyboardTarget::leave is atomic with respect to handle_keyboard    *)
(* calls of other threads: in every interleaving, when leave returns,      *)
(* EguiInner.pressed is empty, focused is false, and every key-down        *)
(* recorded before the return has a key-up queued after it.                *)
(***************************************************************************)
C34_LeaveAtomic ==
    [][Returned("leave") =>
          /\ pressed' = <<>>
          /\ ~focused'
          /\ \A k \in LogicalKeys : lastKey'[k] # "down"]_vars

(***************************************************************************)
(* C35: a modifier update is never lost: in every interleaving of          *)
(* KeyboardTarget::modifiers calls with KeyboardTarget::key calls of other *)
(* threads, once all calls have returned, last_modifiers is the value of   *)
(* the last modifiers call; and a key call leaves last_modifiers as it     *)
(* finds it.                                                               *)
(***************************************************************************)
C35_ModifierUpdateKept ==
    /\ []((\A t \in Threads : pc[t] = "idle") => last_modifiers = stamp.mods)
    /\ [][\A t \in Threads :
             (pc[t] = "key" /\ pc'[t] = "idle") =>
                last_modifiers' = last_modifiers]_vars

(***************************************************************************)
(* C36: a PointerGone event is appended exactly when the removal of a      *)
(* device with pointer capability takes the pointer count from 1 to 0; the *)
(* removal of a device without pointer capability appends no event and     *)
(* leaves the count as it is, whatever the count.                          *)
(***************************************************************************)
GoneAppended ==
    /\ Len(events') = Len(events) + 1
    /\ events'[Len(events')] = PointerGone

C36_PointerGoneOnLastPointer ==
    /\ [][GoneAppended <=>
             /\ Returned("handle_device_removed") /\ call'.pressed
             /\ pointers = 1 /\ pointers' = 0]_vars
    /\ [][Returned("handle_device_removed") /\ ~call'.pressed =>
             UNCHANGED <<pointers, events>>]_vars

(***************************************************************************)
(* C37: the pointer count never underflows: for every sequence of          *)
(* handle_device_added and handle_device_removed calls, a removal of a     *)
(* pointer device that was never added included, the count stays           *)
(* non-negative, a removal at 0 leaves it at 0 and every other call of a   *)
(* pointer device moves it by one (max(0, added - removed)), and no call   *)
(* panics or wraps.                                                        *)
(***************************************************************************)
C37_PointerCountNeverUnderflows ==
    /\ [](pointers >= 0 /\ ~poisoned)
    /\ [][Returned("handle_device_added") /\ call'.pressed =>
             pointers' = pointers + 1]_vars
    /\ [][Returned("handle_device_removed") /\ call'.pressed =>
             pointers' = Max(0, pointers - 1)]_vars

(***************************************************************************)
(* C38: after every successful render(area, scale) the render buffer of    *)
(* the instance has the pixel size area.size * ceil(scale), whatever the   *)
(* areas and scales of the renders before it.                              *)
(***************************************************************************)
C38_BufferSizeFollowsScale ==
    RenderedOk =>
        /\ render_buffers["self"] # <<>>
        /\ render_buffers["self"][1].w = area.size.w * rscale
        /\ render_buffers["self"][1].h = area.size.h * rscale

(***************************************************************************)
(* C39: a render whose buffer recreation fails leaves the stored area as   *)
(* it was before the call, so that the next render with the same area      *)
(* still sees the change and recreates the buffer.                         *)
(***************************************************************************)
RecreationFailed == rpc = "idle" /\ rres = "Err" /\ rfail = "create_buffer"

C39_FailedRecreationKeepsArea == RecreationFailed => area = rbefore.area

(***************************************************************************)
(* C40: is_in_input_region returns false for every point whose Manhattan   *)
(* distance |dx| + |dy| from the last pointer position is 10 or more, in   *)
(* every direction, and the toolkit's wants-pointer answer for nearer      *)
(* points.                                                                 *)
(***************************************************************************)
C40_InputRegionIsDiamond ==
    conv.fn = "is_in_input_region" =>
        LET pos == to_i32_round(conv.arg[1])
            last_pos == conv.arg[3]
            dist == Abs(pos.x - last_pos.x) + Abs(pos.y - last_pos.y)
        IN conv.out = IF dist >= 10 THEN FALSE ELSE conv.arg[2]

====
